---- MODULE Spec2Model ----
(***************************************************************************)
(* Model of the edit / relayout / serialize pipeline of Binject/debug.      *)
(*                                                                         *)
(* ELF part: the relocation edit verbs of elf/reloc_edit.go and the        *)
(* serializer Bytes().  A File is one record; every Go function that       *)
(* mutates the File through pointers is an operator from a File to the     *)
(* File it leaves behind plus the error it returns.  Section indices are   *)
(* the 0-based Go indices: Sec(f, i) is f.Sections[i].                     *)
(***************************************************************************)
EXTENDS Integers, Sequences, FiniteSets, TLC

VARIABLES
    f,       \* the *elf.File being edited
    prev,    \* the File as it was when the last verb was called
    call,    \* the last verb called, with its arguments
    err,     \* what the last verb returned ("" is a nil error)
    clean,   \* TRUE while every verb called so far returned a nil error
    edits,   \* number of verbs called so far
    out      \* what the last Bytes() call wrote (<<>> before any call)

vars == <<f, prev, call, err, clean, edits, out>>

\* Number of edit verbs called on one parsed File.
MaxEdits == 2

----------------------------------------------------------------------------
(* Small helpers                                                           *)

Min(S) == CHOOSE x \in S : \A y \in S : x <= y

Max(S) == CHOOSE x \in S : \A y \in S : x >= y

\* bytes.Index / strings.Index: first 0-based position of pat in data, or -1.
Index(data, pat) ==
    LET hits == { i \in 0..(Len(data) - Len(pat)) :
                    SubSeq(data, i + 1, i + Len(pat)) = pat }
    IN IF hits = {} THEN -1 ELSE Min(hits)

RECURSIVE Zeros(_)
Zeros(n) == IF n <= 0 THEN <<>> ELSE <<0>> \o Zeros(n - 1)

RECURSIVE Reverse(_)
Reverse(s) == IF s = <<>> THEN <<>> ELSE Reverse(Tail(s)) \o <<Head(s)>>

\* The n low-order bytes of the two's complement integer v, least significant first.
RECURSIVE LittleEndian(_, _)
LittleEndian(v, n) ==
    IF n = 0 THEN <<>> ELSE <<v % 256>> \o LittleEndian(v \div 256, n - 1)

\* binary.Write of one integer field of n bytes in the File's byte order.
PutInt(order, v, n) ==
    IF order = "LittleEndian" THEN LittleEndian(v, n) ELSE Reverse(LittleEndian(v, n))

alignUp(value, align) ==
    IF align = 0 THEN value
    ELSE IF value % align = 0 THEN value
    ELSE value + (align - (value % align))

----------------------------------------------------------------------------
(* Section names are sequences of characters; NUL terminates a name in the *)
(* section header string table.                                            *)

NUL == "NUL"

N_rel == <<".", "r", "e", "l">>
N_rela == <<".", "r", "e", "l", "a">>
N_plt == <<".", "p", "l", "t">>
N_text == <<".", "t", "e", "x", "t">>
N_got == <<".", "g", "o", "t">>
N_bss == <<".", "b", "s", "s">>
N_dyn == <<".", "d", "y", "n">>
N_data == <<".", "d", "a", "t", "a">>
N_dynamic == <<".", "d", "y", "n", "a", "m", "i", "c">>
N_symtab == <<".", "s", "y", "m", "t", "a", "b">>
N_dynsym == <<".", "d", "y", "n", "s", "y", "m">>
N_shstrtab == <<".", "s", "h", "s", "t", "r", "t", "a", "b">>
N_missing == <<".", "n", "o", "n", "e">>

RECURSIVE StrTab(_)
StrTab(names) ==
    IF names = <<>> THEN <<>> ELSE Head(names) \o <<NUL>> \o StrTab(Tail(names))

----------------------------------------------------------------------------
(* Dynamic tags (values of debug/elf's DynTag constants).                  *)

DT_NULL == 0
DT_NEEDED == 1
DT_PLTRELSZ == 2
DT_RELA == 7
DT_RELASZ == 8
DT_RELAENT == 9
DT_SONAME == 14
DT_REL == 17
DT_RELSZ == 18
DT_RELENT == 19
DT_PLTREL == 20
DT_JMPREL == 23

----------------------------------------------------------------------------
(* Relocation entries and their encoding.                                  *)
(* A rels argument is [kind, list]: kind is the Go type of the entries     *)
(* (Rel32, Rela32, Rel64, Rela64, single or slice alike), list the entries.*)
(* A 64-bit Info is kept as its two 32-bit halves [sym, typ] (R_INFO);     *)
(* a 32-bit Info is the integer sym<<8 | typ&0xff (R_INFO32).              *)

R_INFO(sym, typ) == [sym |-> sym, typ |-> typ]

R_INFO32(sym, typ) == sym * 256 + (typ % 256)

\* binary.Write of the 64-bit Info word.
PutInfo64(order, info) ==
    IF order = "LittleEndian"
    THEN PutInt(order, info.typ, 4) \o PutInt(order, info.sym, 4)
    ELSE PutInt(order, info.sym, 4) \o PutInt(order, info.typ, 4)

\* binary.Write(buf, order, rel) for one entry of the given Go type.
EncodeEntry(order, kind, e) ==
    CASE kind = "Rel32" -> PutInt(order, e.Off, 4) \o PutInt(order, e.Info, 4)
      [] kind = "Rela32" -> PutInt(order, e.Off, 4) \o PutInt(order, e.Info, 4)
                             \o PutInt(order, e.Addend, 4)
      [] kind = "Rel64" -> PutInt(order, e.Off, 8) \o PutInfo64(order, e.Info)
      [] kind = "Rela64" -> PutInt(order, e.Off, 8) \o PutInfo64(order, e.Info)
                             \o PutInt(order, e.Addend, 8)

RECURSIVE EncodeList(_, _, _)
EncodeList(order, kind, list) ==
    IF list = <<>> THEN <<>>
    ELSE EncodeEntry(order, kind, Head(list)) \o EncodeList(order, kind, Tail(list))

\* binary.Size of the entry struct.
binarySize(kind) ==
    CASE kind = "Rel32" -> 8
      [] kind = "Rela32" -> 12
      [] kind = "Rel64" -> 16
      [] kind = "Rela64" -> 24

encodeRelocations(order, rels) ==
    IF rels.kind \in {"Rel32", "Rel64"}
    THEN [data |-> EncodeList(order, rels.kind, rels.list), relType |-> "SHT_REL",
          entSize |-> binarySize(rels.kind), err |-> ""]
    ELSE IF rels.kind \in {"Rela32", "Rela64"}
    THEN [data |-> EncodeList(order, rels.kind, rels.list), relType |-> "SHT_RELA",
          entSize |-> binarySize(rels.kind), err |-> ""]
    ELSE [data |-> <<>>, relType |-> "SHT_NULL", entSize |-> 0,
          err |-> "unsupported relocation type"]

relocationSectionName(targetName, relType) ==
    IF relType = "SHT_RELA" THEN N_rela \o targetName ELSE N_rel \o targetName

relocationAlign(class) == IF class = "ELFCLASS64" THEN 8 ELSE 4

----------------------------------------------------------------------------
(* The File and its sections.                                              *)

NoSection == -1   \* a *Section that is not an element of f.Sections

Sec(file, i) == file.Sections[i + 1]

SecIndices(file) == 0..(Len(file.Sections) - 1)

IsAlloc(s) == "SHF_ALLOC" \in s.Flags

IsReloc(s) == s.Type = "SHT_REL" \/ s.Type = "SHT_RELA"

\* Section.Replace(reader, length): the section now reads its payload from the
\* reader, and its size is the reader's length.
Replace(s, data) ==
    [s EXCEPT !.data = data, !.sr = TRUE, !.Size = Len(data), !.FileSize = Len(data)]

\* File.Section(name): the first section of that name (its index), or none.
Section(file, name) ==
    LET hits == { i \in SecIndices(file) : Sec(file, i).Name = name }
    IN IF hits = {} THEN NoSection ELSE Min(hits)

sectionIndex(file, target) ==
    IF target \in SecIndices(file) THEN [index |-> target, ok |-> TRUE]
    ELSE [index |-> -1, ok |-> FALSE]

relocationSection(file, targetIndex, relType) ==
    LET hits == { i \in SecIndices(file) :
                    Sec(file, i).Type = relType /\ Sec(file, i).Info = targetIndex }
    IN IF hits = {} THEN -1 ELSE Min(hits)

sectionIndexByName(file, name) ==
    LET i == Section(file, name)
    IN [index |-> i, ok |-> i # NoSection]

defaultSymtabIndex(file) ==
    IF sectionIndexByName(file, N_symtab).ok
    THEN [index |-> sectionIndexByName(file, N_symtab).index, err |-> ""]
    ELSE IF sectionIndexByName(file, N_dynsym).ok
    THEN [index |-> sectionIndexByName(file, N_dynsym).index, err |-> ""]
    ELSE [index |-> -1, err |-> "no symbol table section found"]

\* ensureSectionName(section): the name index of the section is set to where its
\* NUL-terminated name lies in the section header string table; the name is
\* appended to the table when it does not occur there.  `file` holds the string
\* table, `section` is the section the caller holds a pointer to.
ensureSectionName(file, section) ==
    IF section.Name = <<>>
    THEN [f |-> file, sec |-> section, modified |-> FALSE, err |-> ""]
    ELSE IF file.ShStrIndex < 0 \/ file.ShStrIndex >= Len(file.Sections)
    THEN [f |-> file, sec |-> section, modified |-> FALSE, err |-> "invalid shstrtab index"]
    ELSE
      LET shstr == Sec(file, file.ShStrIndex)
          data == shstr.data
          nameBytes == section.Name \o <<NUL>>
          idx == Index(data, nameBytes)
      IN IF idx >= 0
         THEN [f |-> file, sec |-> [section EXCEPT !.Shname = idx],
               modified |-> FALSE, err |-> ""]
         ELSE [f |-> [file EXCEPT !.Sections[file.ShStrIndex + 1] =
                                      Replace(shstr, data \o nameBytes)],
               sec |-> [section EXCEPT !.Shname = Len(data)],
               modified |-> TRUE, err |-> ""]

\* The packing loop of relayoutRelocationSections: every non-allocated section
\* of `moved`, in order, at the next offset aligned to its Addralign.
RECURSIVE PlaceMoved(_, _, _)
PlaceMoved(secs, moved, offset) ==
    IF moved = <<>> THEN [secs |-> secs, offset |-> offset]
    ELSE LET i == Head(moved)
             s == secs[i + 1]
         IN IF IsAlloc(s) THEN PlaceMoved(secs, Tail(moved), offset)
            ELSE LET align == IF s.Addralign = 0 THEN 1 ELSE s.Addralign
                     o == alignUp(offset, align)
                 IN PlaceMoved([secs EXCEPT ![i + 1].Offset = o], Tail(moved),
                               o + s.FileSize)

shtAlign(file) == IF file.Class = "ELFCLASS64" THEN 8 ELSE 4

\* The first loop of relayoutRelocationSections: the relocation sections, in
\* section order, from section i on.
RECURSIVE RelocSections(_, _)
RelocSections(file, i) ==
    IF i >= Len(file.Sections) THEN <<>>
    ELSE (IF IsReloc(Sec(file, i)) THEN <<i>> ELSE <<>>) \o RelocSections(file, i + 1)

\* relayoutRelocationSections once the list `moved` is built: the sections of
\* it that are not allocated are packed behind all other file content.
PackMoved(file, moved) ==
    LET moveSet == { moved[k] : k \in { j \in 1..Len(moved) : ~IsAlloc(Sec(file, moved[j])) } }
        ends == { Sec(file, i).Offset + Sec(file, i).FileSize :
                    i \in { j \in SecIndices(file) :
                              /\ j \notin moveSet
                              /\ Sec(file, j).Type # "SHT_NOBITS"
                              /\ Sec(file, j).FileSize # 0 } }
        maxEnd == IF ends = {} THEN 0 ELSE Max(ends)
        placed == PlaceMoved(file.Sections, moved, maxEnd)
    IN IF Len(moved) = 0 THEN file
       ELSE [file EXCEPT !.Sections = placed.secs,
                         !.SHTOffset = alignUp(placed.offset, shtAlign(file))]

relayoutRelocationSections(file, shstrModified) ==
    PackMoved(file,
              IF shstrModified /\ file.ShStrIndex >= 0 /\ file.ShStrIndex < Len(file.Sections)
              THEN Append(RelocSections(file, 0), file.ShStrIndex)
              ELSE RelocSections(file, 0))

maxFileEnd(file) ==
    LET ends == { Sec(file, i).Offset + Sec(file, i).FileSize :
                    i \in { j \in SecIndices(file) :
                              /\ Sec(file, j).Type # "SHT_NOBITS"
                              /\ Sec(file, j).FileSize # 0 } }
        maxEnd == IF ends = {} THEN 0 ELSE Max(ends)
    IN IF file.SHTOffset > maxEnd THEN file.SHTOffset ELSE maxEnd

LoadIndices(file) == { i \in 1..Len(file.Progs) : file.Progs[i].Type = "PT_LOAD" }

\* BumpSHTOffset that leaves the section header table where it is.
BumpSHTOffsetNever(file, si) == file

\* The tail shared by both allocated-section relayouts: the section header table
\* moves behind the section when the section now ends after it.
BumpSHTOffset(file, si) ==
    LET end == Sec(file, si).Offset + Sec(file, si).FileSize
    IN IF end > file.SHTOffset
       THEN [file EXCEPT !.SHTOffset = alignUp(end, shtAlign(file))]
       ELSE file

\* MoveIntoLoad that grows the segment in the file only, not in memory.
MoveIntoLoadFileOnly(file, si, pi, newOff) ==
    LET prog == file.Progs[pi]
        newEnd == newOff + Sec(file, si).FileSize
        delta == newEnd - (prog.Off + prog.Filesz)
        moved == [file EXCEPT !.Sections[si + 1].Offset = newOff,
                              !.Sections[si + 1].Addr = prog.Vaddr + (newOff - prog.Off)]
    IN BumpSHTOffset(IF newEnd > prog.Off + prog.Filesz
                     THEN [moved EXCEPT !.Progs[pi].Filesz = prog.Filesz + delta]
                     ELSE moved,
                     si)

\* The tail shared by both allocated-section relayouts: the section moves to
\* newOff in the PT_LOAD segment Progs[pi], which grows to hold it.
MoveIntoLoad(file, si, pi, newOff) ==
    LET prog == file.Progs[pi]
        newEnd == newOff + Sec(file, si).FileSize
        delta == newEnd - (prog.Off + prog.Filesz)
        moved == [file EXCEPT !.Sections[si + 1].Offset = newOff,
                              !.Sections[si + 1].Addr = prog.Vaddr + (newOff - prog.Off)]
    IN BumpSHTOffset(IF newEnd > prog.Off + prog.Filesz
                     THEN [moved EXCEPT !.Progs[pi].Filesz = prog.Filesz + delta,
                                        !.Progs[pi].Memsz = prog.Memsz + delta]
                     ELSE moved,
                     si)

\* The PT_LOAD segment the loop of relayoutAllocRelocationSectionNewLoad ends
\* with: the first one of the greatest file offset.
LastLoad(file) ==
    Min({ i \in LoadIndices(file) :
            \A j \in LoadIndices(file) : file.Progs[j].Off <= file.Progs[i].Off })

relayoutAllocRelocationSectionNewLoad(file, si) ==
    LET section == Sec(file, si)
        align == IF section.Addralign = 0 THEN relocationAlign(file.Class)
                 ELSE section.Addralign
        lastLoad == file.Progs[LastLoad(file)]
        loadEnd == lastLoad.Off + lastLoad.Filesz
        fileEnd == maxFileEnd(file)
        baseOff == IF fileEnd > loadEnd THEN fileEnd ELSE loadEnd
    IN IF LoadIndices(file) = {} THEN [f |-> file, err |-> "no PT_LOAD segments available"]
       ELSE [f |-> MoveIntoLoad(file, si, LastLoad(file), alignUp(baseOff, align)),
             err |-> ""]

\* relayoutAllocRelocationSection once the PT_LOAD segment that contains the
\* section, Progs[pi], is found.
GrowLoad(file, si, pi) ==
    LET section == Sec(file, si)
        prog == file.Progs[pi]
        later == { file.Progs[i].Off : i \in { j \in LoadIndices(file) :
                                                 j # pi /\ file.Progs[j].Off > prog.Off } }
        nextLoadOff == IF later = {} THEN 0 ELSE Min(later)
        align == IF section.Addralign = 0 THEN relocationAlign(file.Class)
                 ELSE section.Addralign
        newOff == alignUp(prog.Off + prog.Filesz, align)
        newEnd == newOff + section.FileSize
    IN IF nextLoadOff # 0 /\ newEnd > nextLoadOff
       THEN relayoutAllocRelocationSectionNewLoad(file, si)
       ELSE [f |-> MoveIntoLoad(file, si, pi, newOff), err |-> ""]

relayoutAllocRelocationSection(file, si) ==
    LET section == Sec(file, si)
        holders == { i \in LoadIndices(file) :
                       /\ section.Addr >= file.Progs[i].Vaddr
                       /\ section.Addr < file.Progs[i].Vaddr + file.Progs[i].Memsz }
    IN IF ~IsAlloc(section) THEN [f |-> file, err |-> ""]
       ELSE IF holders = {} THEN [f |-> file, err |-> "no PT_LOAD segment contains section"]
       ELSE GrowLoad(file, si, Min(holders))

setDynTag(tags, tag, value) ==
    LET hits == { i \in 1..Len(tags) : tags[i].Tag = tag }
    IN IF hits = {} THEN Append(tags, [Tag |-> tag, Value |-> value])
       ELSE [tags EXCEPT ![Min(hits)].Value = value]

\* The body of the loop of updateDynamicRelocTags for one section.
TagsForSection(tags, s) ==
    LET isPlt == Index(s.Name, N_plt) >= 0
    IN IF ~IsAlloc(s) \/ ~IsReloc(s) THEN tags
       ELSE IF s.Addr = 0 THEN tags
       ELSE IF s.Type = "SHT_RELA"
       THEN IF isPlt
            THEN setDynTag(setDynTag(setDynTag(tags, DT_JMPREL, s.Addr),
                                     DT_PLTRELSZ, s.Size), DT_PLTREL, DT_RELA)
            ELSE setDynTag(setDynTag(setDynTag(tags, DT_RELA, s.Addr),
                                     DT_RELASZ, s.Size), DT_RELAENT, s.Entsize)
       ELSE IF isPlt
            THEN setDynTag(setDynTag(setDynTag(tags, DT_JMPREL, s.Addr),
                                     DT_PLTRELSZ, s.Size), DT_PLTREL, DT_REL)
            ELSE setDynTag(setDynTag(setDynTag(tags, DT_REL, s.Addr),
                                     DT_RELSZ, s.Size), DT_RELENT, s.Entsize)

RECURSIVE TagsForSections(_, _)
TagsForSections(tags, secs) ==
    IF secs = <<>> THEN tags
    ELSE TagsForSections(TagsForSection(tags, Head(secs)), Tail(secs))

updateDynamicRelocTags(file) ==
    IF Len(file.DynTags) = 0 THEN file
    ELSE [file EXCEPT !.DynTags = TagsForSections(file.DynTags, file.Sections)]

----------------------------------------------------------------------------
(* The edit verbs: each is the File the call leaves behind and its error.  *)

NoLink == -1   \* linkOverride == nil

maxInt32 == 2147483647

minInt32 == -2147483647 - 1

pickLink(index) == IF index < 0 THEN NoLink ELSE index

\* The end of every add: the dynamic tags are refreshed unless the relayout failed.
TagsUpdated(res) ==
    IF res.err # "" THEN res ELSE [f |-> updateDynamicRelocTags(res.f), err |-> ""]

\* addRelocations from the relayout on: relocSec is Sections[si] of file.
RelayoutEdited(file, si, shstrModified, oldFileSize) ==
    LET file3 == relayoutRelocationSections(file, shstrModified)
    IN IF IsAlloc(Sec(file3, si)) /\ Sec(file3, si).FileSize # oldFileSize
       THEN TagsUpdated(relayoutAllocRelocationSection(file3, si))
       ELSE TagsUpdated([f |-> file3, err |-> ""])

\* addRelocations once relocSec holds its new payload: the section is named,
\* appended to the section list when it is new (ri = -1), and laid out.  An
\* existing section is changed in place, a new one is not yet in the list.
StoreRelocSec(file, ri, relocSec, oldFileSize) ==
    LET newSection == ri = -1
        named == ensureSectionName(IF newSection THEN file
                                   ELSE [file EXCEPT !.Sections[ri + 1] = relocSec],
                                   relocSec)
    IN IF named.err # ""
       THEN [f |-> IF newSection THEN named.f
                   ELSE [named.f EXCEPT !.Sections[ri + 1] = named.sec],
             err |-> named.err]
       ELSE RelayoutEdited(IF newSection
                           THEN [named.f EXCEPT !.Sections = Append(@, named.sec)]
                           ELSE [named.f EXCEPT !.Sections[ri + 1] = named.sec],
                           IF newSection THEN Len(file.Sections) ELSE ri,
                           named.modified \/ newSection,
                           oldFileSize)

\* addRelocations once the entries are encoded (enc) and the relocation
\* section of the target is looked up (ri, -1 when there is none yet).
AddEncoded(file, targetIndex, enc, ri, replace, linkOverride) ==
    LET relocSec0 ==
            IF ri = -1
            THEN [Name |-> relocationSectionName(Sec(file, targetIndex).Name, enc.relType),
                  Type |-> enc.relType, Flags |-> {}, Addr |-> 0, Offset |-> 0,
                  Size |-> 0, FileSize |-> 0, Link |-> 0, Info |-> targetIndex,
                  Addralign |-> relocationAlign(file.Class), Entsize |-> enc.entSize,
                  Shname |-> 0, sr |-> FALSE, data |-> <<>>]
            ELSE Sec(file, ri)
        link1 == IF linkOverride # NoLink THEN linkOverride ELSE relocSec0.Link
        dflt == defaultSymtabIndex(file)
        linkIndex == IF link1 = 0 THEN dflt.index ELSE link1
        existing == IF relocSec0.sr THEN relocSec0.data ELSE <<>>
    IN IF link1 = 0 /\ dflt.err # "" THEN [f |-> file, err |-> dflt.err]
       ELSE IF relocSec0.Link # 0 /\ relocSec0.Link # linkIndex
       THEN [f |-> file, err |-> "relocation section links to another symtab"]
       ELSE StoreRelocSec(file, ri,
                Replace([relocSec0 EXCEPT !.Link = linkIndex, !.Info = targetIndex,
                                          !.Addralign = relocationAlign(file.Class),
                                          !.Entsize = enc.entSize],
                        IF replace THEN enc.data ELSE existing \o enc.data),
                relocSec0.FileSize)

\* addRelocations once the target is known to be Sections[targetIndex].
AddToTarget(file, targetIndex, enc, replace, linkOverride) ==
    IF enc.err # "" THEN [f |-> file, err |-> enc.err]
    ELSE AddEncoded(file, targetIndex, enc,
                    relocationSection(file, targetIndex, enc.relType), replace, linkOverride)

addRelocations(file, target, rels, replace, linkOverride) ==
    IF target = NoSection \/ ~sectionIndex(file, target).ok
    THEN [f |-> file, err |-> "target section not found in file"]
    ELSE AddToTarget(file, sectionIndex(file, target).index,
                     encodeRelocations(file.ByteOrder, rels), replace, linkOverride)

\* RemoveRelocations without the Replace of the SHT_RELA section.
removeRelocationsKeepRela(file, target) ==
    LET ti == sectionIndex(file, target)
        rel == relocationSection(file, ti.index, "SHT_REL")
        rela == relocationSection(file, ti.index, "SHT_RELA")
        file1 == IF rel # -1
                 THEN [file EXCEPT !.Sections[rel + 1] = Replace(Sec(file, rel), <<>>)]
                 ELSE file
    IN IF target = NoSection \/ ~ti.ok
       THEN [f |-> file, err |-> "target section not found in file"]
       ELSE IF rel = -1 /\ rela = -1 THEN [f |-> file, err |-> ""]
       ELSE [f |-> updateDynamicRelocTags(file1), err |-> ""]

removeRelocations(file, target) ==
    LET ti == sectionIndex(file, target)
        rel == relocationSection(file, ti.index, "SHT_REL")
        rela == relocationSection(file, ti.index, "SHT_RELA")
        file1 == IF rel # -1
                 THEN [file EXCEPT !.Sections[rel + 1] = Replace(Sec(file, rel), <<>>)]
                 ELSE file
        file2 == IF rela # -1
                 THEN [file1 EXCEPT !.Sections[rela + 1] = Replace(Sec(file1, rela), <<>>)]
                 ELSE file1
    IN IF target = NoSection \/ ~ti.ok
       THEN [f |-> file, err |-> "target section not found in file"]
       ELSE IF rel = -1 /\ rela = -1 THEN [f |-> file, err |-> ""]
       ELSE [f |-> updateDynamicRelocTags(file2), err |-> ""]

\* AddRelocationsToRelocSection once relocSec, Sections[ri], holds its new payload.
StoreNamedRelocSec(file, ri, relocSec) ==
    LET named == ensureSectionName([file EXCEPT !.Sections[ri + 1] = relocSec], relocSec)
    IN IF named.err # ""
       THEN [f |-> [named.f EXCEPT !.Sections[ri + 1] = named.sec], err |-> named.err]
       ELSE TagsUpdated(relayoutAllocRelocationSection(
                relayoutRelocationSections([named.f EXCEPT !.Sections[ri + 1] = named.sec],
                                           named.modified),
                ri))

\* AddRelocationsToRelocSection once the section is found (ri) and the entries
\* are encoded (enc).
AppendEncoded(file, ri, enc) ==
    LET relocSec0 == Sec(file, ri)
        existing == IF relocSec0.sr THEN relocSec0.data ELSE <<>>
    IN IF enc.err # "" THEN [f |-> file, err |-> enc.err]
       ELSE IF enc.relType # relocSec0.Type
       THEN [f |-> file, err |-> "relocation type mismatch"]
       ELSE StoreNamedRelocSec(file, ri,
                Replace([relocSec0 EXCEPT !.Addralign = relocationAlign(file.Class),
                                          !.Entsize = enc.entSize],
                        existing \o enc.data))

addRelocationsToRelocSection(file, sectionName, rels) ==
    IF Section(file, sectionName) = NoSection
    THEN [f |-> file, err |-> "relocation section not found"]
    ELSE IF ~IsReloc(Sec(file, Section(file, sectionName)))
    THEN [f |-> file, err |-> "section is not a relocation section"]
    ELSE AppendEncoded(file, Section(file, sectionName),
                       encodeRelocations(file.ByteOrder, rels))

removeRelocationsFromRelocSection(file, sectionName) ==
    LET ri == Section(file, sectionName)
        file1 == [file EXCEPT !.Sections[ri + 1] = Replace(Sec(file, ri), <<>>)]
    IN IF ri = NoSection THEN [f |-> file, err |-> "relocation section not found"]
       ELSE IF ~IsReloc(Sec(file, ri))
       THEN [f |-> file, err |-> "section is not a relocation section"]
       ELSE [f |-> updateDynamicRelocTags(file1), err |-> ""]

\* Position (1-based) of the first symbol of that name in a symbol list, 0 if none.
SymPos(syms, name) ==
    LET hits == { i \in 1..Len(syms) : syms[i] = name }
    IN IF hits = {} THEN 0 ELSE Min(hits)

\* f.Symbols() / f.DynamicSymbols() list the symbols after the null symbol, so
\* the symbol at position i of the list has symbol-table index i.
symbolIndexByName(file, name) ==
    LET symtab == sectionIndexByName(file, N_symtab)
        dynsym == sectionIndexByName(file, N_dynsym)
    IN IF symtab.ok /\ SymPos(file.Symbols, name) # 0
       THEN [symIndex |-> SymPos(file.Symbols, name), symtabIndex |-> symtab.index,
             err |-> ""]
       ELSE IF dynsym.ok /\ SymPos(file.DynamicSymbols, name) # 0
       THEN [symIndex |-> SymPos(file.DynamicSymbols, name),
             symtabIndex |-> dynsym.index, err |-> ""]
       ELSE [symIndex |-> 0, symtabIndex |-> -1, err |-> "symbol not found"]

\* addend is <<>> for a nil *int64 and <<v>> for a pointer to v.  The check of
\* offset against the 32-bit range is left out: offsets of the model are small.
addRelocationEntry(file, target, symIndex, symtabIndex, offset, rType, addend) ==
    IF file.Class = "ELFCLASS32"
    THEN IF addend = <<>>
         THEN addRelocations(file, target,
                  [kind |-> "Rel32",
                   list |-> <<[Off |-> offset, Info |-> R_INFO32(symIndex, rType)]>>],
                  FALSE, pickLink(symtabIndex))
         ELSE IF addend[1] > maxInt32 \/ addend[1] < minInt32
         THEN [f |-> file, err |-> "addend overflows 32-bit"]
         ELSE addRelocations(file, target,
                  [kind |-> "Rela32",
                   list |-> <<[Off |-> offset, Info |-> R_INFO32(symIndex, rType),
                               Addend |-> addend[1]]>>],
                  FALSE, pickLink(symtabIndex))
    ELSE IF file.Class = "ELFCLASS64"
    THEN IF addend = <<>>
         THEN addRelocations(file, target,
                  [kind |-> "Rel64",
                   list |-> <<[Off |-> offset, Info |-> R_INFO(symIndex, rType)]>>],
                  FALSE, pickLink(symtabIndex))
         ELSE addRelocations(file, target,
                  [kind |-> "Rela64",
                   list |-> <<[Off |-> offset, Info |-> R_INFO(symIndex, rType),
                               Addend |-> addend[1]]>>],
                  FALSE, pickLink(symtabIndex))
    ELSE [f |-> file, err |-> "unsupported ELF class"]

addRelocationForSymbol(file, sectionName, symbolName, offset, rType, addend) ==
    LET target == Section(file, sectionName)
        sym == symbolIndexByName(file, symbolName)
    IN IF target = NoSection THEN [f |-> file, err |-> "section not found"]
       ELSE IF sym.err # "" THEN [f |-> file, err |-> sym.err]
       ELSE addRelocationEntry(file, target, sym.symIndex, sym.symtabIndex,
                               offset, rType, addend)

addRelocationForAddr(file, sectionName, offset, rType, addend) ==
    LET target == Section(file, sectionName)
    IN IF target = NoSection THEN [f |-> file, err |-> "section not found"]
       ELSE addRelocationEntry(file, target, 0, -1, offset, rType, addend)

----------------------------------------------------------------------------
(* Parsed files.  NewFile gives every section its header fields, its       *)
(* payload and its name index; FileSize is the size of the header.         *)

Fill(b, n) == [i \in 1..n |-> b]

Hdr(name, type, flags, addr, offset, size, link, info, addralign, entsize, data) ==
    [Name |-> name, Type |-> type, Flags |-> flags, Addr |-> addr, Offset |-> offset,
     Size |-> size, FileSize |-> size, Link |-> link, Info |-> info,
     Addralign |-> addralign, Entsize |-> entsize, Shname |-> 0, sr |-> TRUE,
     data |-> data]

NullSection == Hdr(<<>>, "SHT_NULL", {}, 0, 0, 0, 0, 0, 0, 0, <<>>)

Load(off, vaddr, filesz, memsz) ==
    [Type |-> "PT_LOAD", Off |-> off, Vaddr |-> vaddr, Filesz |-> filesz, Memsz |-> memsz]

Dynamic(off, vaddr, filesz) ==
    [Type |-> "PT_DYNAMIC", Off |-> off, Vaddr |-> vaddr, Filesz |-> filesz,
     Memsz |-> filesz]

Tag(tag, value) == [Tag |-> tag, Value |-> value]

\* The tag -> value map NewFile fills from the dynamic section, entry by entry.
TagMap(tags) ==
    [t \in { tags[i].Tag : i \in 1..Len(tags) } |->
        tags[Max({ i \in 1..Len(tags) : tags[i].Tag = t })].Value]

\* The File NewFile returns: section name indices point into the string table,
\* both views of the section header table offset and of the dynamic section agree.
NewFile(class, order, secs, progs, shstrndx, shoff, tags, syms, dynsyms) ==
    [Class |-> class, ByteOrder |-> order,
     Sections |-> [i \in 1..Len(secs) |->
                     [secs[i] EXCEPT !.Shname =
                         IF secs[i].Name = <<>> THEN 0
                         ELSE Index(secs[shstrndx + 1].data, secs[i].Name \o <<NUL>>)]],
     Progs |-> progs, ShStrIndex |-> shstrndx, SHTOffset |-> shoff, Shoff |-> shoff,
     DynTags |-> tags, DynamicTags |-> TagMap(tags),
     Symbols |-> syms, DynamicSymbols |-> dynsyms]

Rela64One == <<[Off |-> 0, Info |-> R_INFO(0, 8), Addend |-> 0]>>

Rel32One == <<[Off |-> 0, Info |-> R_INFO32(0, 8)]>>

Rela32One == <<[Off |-> 4, Info |-> R_INFO32(1, 1), Addend |-> 2]>>

\* A dynamically linked 64-bit little-endian executable: two PT_LOAD segments
\* 56 bytes apart in the file, .rela.dyn and .rela.plt in the first one.
Exec64Names ==
    StrTab(<<<<>>, N_dynsym, N_rela \o N_dyn, N_rela \o N_plt, N_text, N_dynamic,
             N_got, N_bss, N_symtab, N_shstrtab>>)

Exec64 ==
    NewFile("ELFCLASS64", "LittleEndian",
        << NullSection,
           Hdr(N_dynsym, "SHT_DYNSYM", {"SHF_ALLOC"}, 4328, 232, 48, 9, 1, 8, 24, Fill(1, 48)),
           Hdr(N_rela \o N_dyn, "SHT_RELA", {"SHF_ALLOC"}, 4376, 280, 24, 1, 0, 8, 24,
               EncodeList("LittleEndian", "Rela64", Rela64One)),
           Hdr(N_rela \o N_plt, "SHT_RELA", {"SHF_ALLOC"}, 4400, 304, 24, 1, 6, 8, 24,
               EncodeList("LittleEndian", "Rela64", Rela64One)),
           Hdr(N_text, "SHT_PROGBITS", {"SHF_ALLOC"}, 4424, 328, 8, 0, 0, 4, 0, Fill(2, 8)),
           Hdr(N_dynamic, "SHT_DYNAMIC", {"SHF_ALLOC"}, 8584, 392, 128, 9, 0, 8, 16,
               Fill(3, 128)),
           Hdr(N_got, "SHT_PROGBITS", {"SHF_ALLOC"}, 8712, 520, 8, 0, 0, 8, 8, Fill(4, 8)),
           Hdr(N_bss, "SHT_NOBITS", {"SHF_ALLOC"}, 8720, 528, 32, 0, 0, 8, 0, <<>>),
           Hdr(N_symtab, "SHT_SYMTAB", {}, 0, 528, 48, 9, 1, 8, 24, Fill(5, 48)),
           Hdr(N_shstrtab, "SHT_STRTAB", {}, 0, 576, Len(Exec64Names), 0, 0, 1, 0,
               Exec64Names) >>,
        << Load(0, 4096, 336, 336), Load(392, 8584, 136, 168), Dynamic(392, 8584, 128) >>,
        9, 648,
        << Tag(DT_NEEDED, 1), Tag(DT_RELA, 4376), Tag(DT_RELASZ, 24), Tag(DT_RELAENT, 24),
           Tag(DT_JMPREL, 4400), Tag(DT_PLTRELSZ, 24), Tag(DT_PLTREL, DT_RELA),
           Tag(DT_NULL, 0) >>,
        <<"main">>, <<"puts">>)

\* A 32-bit big-endian relocatable object: no program headers, no dynamic
\* section, .text with both a .rel.text and a .rela.text.
Obj32Names ==
    StrTab(<<<<>>, N_text, N_rel \o N_text, N_rela \o N_text, N_data, N_symtab,
             N_shstrtab>>)

Obj32 ==
    NewFile("ELFCLASS32", "BigEndian",
        << NullSection,
           Hdr(N_text, "SHT_PROGBITS", {"SHF_ALLOC"}, 0, 52, 8, 0, 0, 4, 0, Fill(2, 8)),
           Hdr(N_rel \o N_text, "SHT_REL", {}, 0, 60, 8, 5, 1, 4, 8,
               EncodeList("BigEndian", "Rel32", Rel32One)),
           Hdr(N_rela \o N_text, "SHT_RELA", {}, 0, 68, 12, 5, 1, 4, 12,
               EncodeList("BigEndian", "Rela32", Rela32One)),
           Hdr(N_data, "SHT_PROGBITS", {"SHF_ALLOC"}, 0, 80, 4, 0, 0, 4, 0, Fill(4, 4)),
           Hdr(N_symtab, "SHT_SYMTAB", {}, 0, 84, 32, 6, 1, 4, 16, Fill(5, 32)),
           Hdr(N_shstrtab, "SHT_STRTAB", {}, 0, 116, Len(Obj32Names), 0, 0, 1, 0,
               Obj32Names) >>,
        <<>>, 6, 168, <<>>, <<"main">>, <<>>)

\* The same object with SHF_ALLOC set on .rela.text: an allocated relocation
\* section that no PT_LOAD segment contains.
Obj32Alloc == [Obj32 EXCEPT !.Sections[4].Flags = {"SHF_ALLOC"}]

\* A 32-bit little-endian position-independent executable with one PT_LOAD and
\* two allocated REL sections that are not PLT relocations; no .symtab.
Dyn32Names ==
    StrTab(<<<<>>, N_dynsym, N_rel \o N_dyn, N_rel \o <<".", "i", "p", "l", "t">>, N_text,
             N_got, N_dynamic, N_bss, N_shstrtab>>)

Dyn32 ==
    NewFile("ELFCLASS32", "LittleEndian",
        << NullSection,
           Hdr(N_dynsym, "SHT_DYNSYM", {"SHF_ALLOC"}, 1140, 116, 32, 8, 1, 4, 16, Fill(1, 32)),
           Hdr(N_rel \o N_dyn, "SHT_REL", {"SHF_ALLOC"}, 1172, 148, 8, 1, 0, 4, 8,
               EncodeList("LittleEndian", "Rel32", Rel32One)),
           Hdr(N_rel \o <<".", "i", "p", "l", "t">>, "SHT_REL", {"SHF_ALLOC"}, 1180, 156, 8,
               1, 5, 4, 8, EncodeList("LittleEndian", "Rel32", Rel32One)),
           Hdr(N_text, "SHT_PROGBITS", {"SHF_ALLOC"}, 1188, 164, 8, 0, 0, 4, 0, Fill(2, 8)),
           Hdr(N_got, "SHT_PROGBITS", {"SHF_ALLOC"}, 1196, 172, 4, 0, 0, 4, 4, Fill(4, 4)),
           Hdr(N_dynamic, "SHT_DYNAMIC", {"SHF_ALLOC"}, 1200, 176, 40, 8, 0, 4, 8,
               Fill(3, 40)),
           Hdr(N_bss, "SHT_NOBITS", {"SHF_ALLOC"}, 1240, 216, 16, 0, 0, 4, 0, <<>>),
           Hdr(N_shstrtab, "SHT_STRTAB", {}, 0, 216, Len(Dyn32Names), 0, 0, 1, 0,
               Dyn32Names) >>,
        << Load(0, 1024, 216, 232), Dynamic(176, 1200, 40) >>,
        8, 280,
        << Tag(DT_NEEDED, 1), Tag(DT_REL, 1172), Tag(DT_RELSZ, 8), Tag(DT_RELENT, 8),
           Tag(DT_NULL, 0) >>,
        <<>>, <<"puts">>)

ParsedFiles == {Exec64, Obj32, Obj32Alloc, Dyn32}

----------------------------------------------------------------------------
(* Arguments the callers pass.                                             *)

RelsChoices ==
    { [kind |-> "Rela64", list |-> Rela64One \o <<[Off |-> 8, Info |-> R_INFO(1, 1),
                                                   Addend |-> -1]>>],
      [kind |-> "Rel64", list |-> <<[Off |-> 0, Info |-> R_INFO(1, 1)]>>],
      [kind |-> "Rela32", list |-> Rela32One],
      [kind |-> "Rel32", list |-> Rel32One \o <<[Off |-> 4, Info |-> R_INFO32(1, 1)]>>] }

\* Targets: the sections that hold code or data, and a section of another file.
Targets(file) ==
    { i \in SecIndices(file) : Sec(file, i).Type = "SHT_PROGBITS" } \cup {NoSection}

\* Names passed to the verbs that take a relocation section by name.
RelocNames(file) ==
    { Sec(file, i).Name : i \in { j \in SecIndices(file) : IsReloc(Sec(file, j)) } }
        \cup {N_text, N_missing}

NoArgs ==
    [verb |-> "", target |-> NoSection, name |-> <<>>, rels |-> <<>>, symbol |-> "",
     addend |-> <<>>]

----------------------------------------------------------------------------
(* The specification of the ELF edit verbs.                                *)

Init ==
    /\ f \in ParsedFiles
    /\ prev = f
    /\ call = NoArgs
    /\ err = ""
    /\ clean = TRUE
    /\ edits = 0
    /\ out = <<>>

\* A verb was called with arguments c and left res behind.
Called(c, res) ==
    /\ edits < MaxEdits
    /\ f' = res.f
    /\ prev' = f
    /\ call' = c
    /\ err' = res.err
    /\ clean' = (clean /\ res.err = "")
    /\ edits' = edits + 1
    /\ out' = <<>>

AddRelocations ==
    \E target \in Targets(f), rels \in RelsChoices :
        Called([NoArgs EXCEPT !.verb = "AddRelocations", !.target = target, !.rels = rels],
               addRelocations(f, target, rels, FALSE, NoLink))

ReplaceRelocations ==
    \E target \in Targets(f), rels \in RelsChoices :
        Called([NoArgs EXCEPT !.verb = "ReplaceRelocations", !.target = target,
                              !.rels = rels],
               addRelocations(f, target, rels, TRUE, NoLink))

RemoveRelocations ==
    \E target \in Targets(f) :
        Called([NoArgs EXCEPT !.verb = "RemoveRelocations", !.target = target],
               removeRelocations(f, target))

AddRelocationsToRelocSection ==
    \E name \in RelocNames(f), rels \in RelsChoices :
        Called([NoArgs EXCEPT !.verb = "AddRelocationsToRelocSection", !.name = name,
                              !.rels = rels],
               addRelocationsToRelocSection(f, name, rels))

RemoveRelocationsFromRelocSection ==
    \E name \in RelocNames(f) :
        Called([NoArgs EXCEPT !.verb = "RemoveRelocationsFromRelocSection", !.name = name],
               removeRelocationsFromRelocSection(f, name))

AddRelocationForSymbol ==
    \E name \in {N_text, N_missing}, symbol \in {"main", "puts", "nosym"},
       addend \in {<<>>, <<-1>>} :
        Called([NoArgs EXCEPT !.verb = "AddRelocationForSymbol", !.name = name,
                              !.symbol = symbol, !.addend = addend],
               addRelocationForSymbol(f, name, symbol, 4, 1, addend))

AddRelocationForAddr ==
    \E name \in {N_text, N_missing}, addend \in {<<>>, <<-1>>} :
        Called([NoArgs EXCEPT !.verb = "AddRelocationForAddr", !.name = name,
                              !.addend = addend],
               addRelocationForAddr(f, name, 4, 8, addend))

Next ==
    \/ AddRelocations
    \/ ReplaceRelocations
    \/ RemoveRelocations
    \/ AddRelocationsToRelocSection
    \/ RemoveRelocationsFromRelocSection
    \/ AddRelocationForSymbol
    \/ AddRelocationForAddr

Spec == Init /\ [][Next]_vars

----------------------------------------------------------------------------
(* Properties of the ELF edit verbs.                                       *)

AddVerbs ==
    {"AddRelocations", "ReplaceRelocations", "AddRelocationsToRelocSection",
     "AddRelocationForSymbol", "AddRelocationForAddr"}

\* A section that occupies file bytes.
Occupies(s) == s.Type # "SHT_NOBITS" /\ s.FileSize > 0

NoOverlap(file) ==
    \A i, j \in SecIndices(file) :
        (i < j /\ Occupies(Sec(file, i)) /\ Occupies(Sec(file, j)))
            => \/ Sec(file, i).Offset + Sec(file, i).FileSize <= Sec(file, j).Offset
               \/ Sec(file, j).Offset + Sec(file, j).FileSize <= Sec(file, i).Offset

\* C1: starting from a file whose sections do not overlap, after any sequence
\* of successful edit verbs no two sections that occupy file bytes have
\* intersecting file ranges [Offset, Offset+FileSize).
C1_NoOverlapAfterEdits == clean => NoOverlap(f)

\* The value the dynamic section gives a tag, -1 when the tag is absent.
TagValue(tags, tag) ==
    LET hits == { i \in 1..Len(tags) : tags[i].Tag = tag }
    IN IF hits = {} THEN -1 ELSE tags[Min(hits)].Value

\* The dynamic tags describe the allocated relocation section s.
TagsAgree(tags, s) ==
    IF Index(s.Name, N_plt) >= 0
    THEN /\ TagValue(tags, DT_JMPREL) = s.Addr
         /\ TagValue(tags, DT_PLTRELSZ) = s.Size
         /\ TagValue(tags, DT_PLTREL) = (IF s.Type = "SHT_RELA" THEN DT_RELA ELSE DT_REL)
    ELSE IF s.Type = "SHT_RELA"
    THEN /\ TagValue(tags, DT_RELA) = s.Addr
         /\ TagValue(tags, DT_RELASZ) = s.Size
         /\ TagValue(tags, DT_RELAENT) = s.Entsize
    ELSE /\ TagValue(tags, DT_REL) = s.Addr
         /\ TagValue(tags, DT_RELSZ) = s.Size
         /\ TagValue(tags, DT_RELENT) = s.Entsize

Described(file, i) ==
    /\ IsAlloc(Sec(file, i)) /\ IsReloc(Sec(file, i)) /\ Sec(file, i).Addr # 0
    /\ TagsAgree(file.DynTags, Sec(file, i))

\* C2: on a file that has dynamic tags, after an edit verb returns
\* successfully the dynamic tags agree with every allocated REL/RELA section
\* with nonzero Addr, also when the file has more than one allocated non-PLT
\* section of the same kind.  Stated for the sections the tags described
\* before the call: each of them is still described after it.
C2_DynTagsAgree ==
    (edits > 0 /\ err = "" /\ Len(f.DynTags) > 0)
        => \A i \in SecIndices(prev) :
              (Described(prev, i) /\ IsAlloc(Sec(f, i)) /\ Sec(f, i).Addr # 0)
                  => TagsAgree(f.DynTags, Sec(f, i))

\* C3: every edit verb is all-or-nothing: whenever an add or replace verb
\* returns an error, the model is exactly as before the call (sections, header
\* fields, payloads, program headers, section header table offset, dynamic tags).
C3_AllOrNothing == (call.verb \in AddVerbs /\ err # "") => f = prev

\* The relocation section of the kind of rels attached to target in file, or -1.
Attached(file, target, rels) ==
    relocationSection(file, target, encodeRelocations(file.ByteOrder, rels).relType)

\* C7: AddRelocations(target, entries) fails when target is not a section of
\* the file, and fails when the encoded entry width of the new entries
\* disagrees with the entry width of a relocation section of the same kind
\* already attached to that target.
C7_AddRejectsWidthMismatch ==
    call.verb = "AddRelocations"
        => /\ call.target = NoSection => err # ""
           /\ (/\ call.target # NoSection
               /\ Attached(prev, call.target, call.rels) # -1
               /\ Sec(prev, Attached(prev, call.target, call.rels)).Size > 0
               /\ Sec(prev, Attached(prev, call.target, call.rels)).Entsize
                    # binarySize(call.rels.kind))
                 => err # ""

\* The section an add or replace verb wrote, as an index into the section list.
Written(file, before, c) ==
    IF c.verb \in {"AddRelocations", "ReplaceRelocations"}
    THEN Attached(file, c.target, c.rels)
    ELSE IF c.verb = "AddRelocationsToRelocSection" THEN Section(file, c.name)
    ELSE relocationSection(file, Section(file, c.name),
                           IF c.addend = <<>> THEN "SHT_REL" ELSE "SHT_RELA")

\* The payload the written section had before the call (empty if it is new).
PayloadBefore(before, c) ==
    LET w == Written(before, before, c)
    IN IF w = -1 THEN <<>> ELSE Sec(before, w).data

\* The entry widths of the payload of a section, read back at its Entsize.
WidthOK(s) ==
    /\ s.Entsize \in {8, 12, 16, 24}
    /\ s.Size % s.Entsize = 0
    /\ s.Size = Len(s.data)

\* C8: after any sequence of successful add/replace verbs the relocation
\* section written by the edit has Entsize 8, 12, 16 or 24 for REL32, RELA32,
\* REL64, RELA64 entries, a nonzero Size that is a multiple of its Entsize,
\* and an add appends: the payload after the call is the payload before the
\* call followed by the encoding of the new entries.
C8_EntsizeAndAppend ==
    (clean /\ call.verb \in {"AddRelocations", "ReplaceRelocations",
                             "AddRelocationsToRelocSection"})
        => LET w == Sec(f, Written(f, prev, call))
               enc == encodeRelocations(f.ByteOrder, call.rels)
           IN /\ w.Entsize = binarySize(call.rels.kind)
              /\ WidthOK(w)
              /\ w.Size > 0
              /\ call.verb # "ReplaceRelocations"
                    => w.data = PayloadBefore(prev, call) \o enc.data

\* The payloads attached to target: its SHT_REL and its SHT_RELA section.
Entries(file, target) ==
    LET rel == relocationSection(file, target, "SHT_REL")
        rela == relocationSection(file, target, "SHT_RELA")
    IN [rel |-> IF rel = -1 THEN <<>> ELSE Sec(file, rel).data,
        rela |-> IF rela = -1 THEN <<>> ELSE Sec(file, rela).data]

\* Exactly the entries E, taken over both relocation sections of the target.
ExactlyE(file, rels) ==
    LET enc == encodeRelocations(file.ByteOrder, rels)
    IN IF enc.relType = "SHT_REL" THEN [rel |-> enc.data, rela |-> <<>>]
       ELSE [rel |-> <<>>, rela |-> enc.data]

\* C9: ReplaceRelocations(target, E) is equivalent to RemoveRelocations(target)
\* followed by AddRelocations(target, E): the entries attached to target
\* afterwards, over both its SHT_REL and its SHT_RELA section, are exactly E,
\* and an existing section of the kind of E keeps its place and its name.
C9_ReplaceIsRemoveThenAdd ==
    (call.verb = "ReplaceRelocations" /\ err = "")
        => LET removed == removeRelocations(prev, call.target)
               added == addRelocations(removed.f, call.target, call.rels, FALSE, NoLink)
               was == Attached(prev, call.target, call.rels)
           IN /\ removed.err = "" /\ added.err = ""
              /\ Entries(f, call.target) = Entries(added.f, call.target)
              /\ Entries(f, call.target) = ExactlyE(f, call.rels)
              /\ was # -1 => /\ Attached(f, call.target, call.rels) = was
                             /\ Sec(f, was).Name = Sec(prev, was).Name

\* C10: RemoveRelocations(target) leaves both the SHT_REL and the SHT_RELA
\* section attached to target with size 0, and calling it a second time
\* leaves exactly the same model state as calling it once.
C10_RemoveClearsAndIsIdempotent ==
    (call.verb = "RemoveRelocations" /\ err = "")
        => /\ \A i \in SecIndices(f) :
                 (IsReloc(Sec(f, i)) /\ Sec(f, i).Info = call.target)
                     => /\ Sec(f, i).Size = 0
                        /\ Sec(f, i).FileSize = 0
                        /\ Sec(f, i).data = <<>>
           /\ removeRelocations(f, call.target) = [f |-> f, err |-> ""]

\* A remove that found entries in both a SHT_REL and a SHT_RELA section, one
\* of them added by the previous call.
C10_Witness ==
    /\ call.verb = "RemoveRelocations" /\ err = "" /\ edits = 2
    /\ relocationSection(prev, call.target, "SHT_REL") # -1
    /\ relocationSection(prev, call.target, "SHT_RELA") # -1
    /\ Sec(prev, relocationSection(prev, call.target, "SHT_REL")).Size > 8
    /\ Sec(prev, relocationSection(prev, call.target, "SHT_RELA")).Size > 0

----------------------------------------------------------------------------
(* Bytes(): the serializer of the ELF model.                               *)
(* The output is the byte sequence up to the section header table, the     *)
(* section headers written after it, and the sections the "Overlapping     *)
(* Sections" log line names.  The fields of the ELF header and of the      *)
(* program headers are not modelled: their bytes are the fillers below.    *)

\* Number of Bytes() calls on one File.
MaxCalls == 2

HeaderByte == -1

ProgByte == -2

\* bytesWritten after the ELF header: 4 + 12 + 8 + 28, or 4 + 12 + 8 + 40.
HeaderSize(class) == IF class = "ELFCLASS32" THEN 52 ELSE 64

\* bytesWritten per program header: 4 + 28, or 4 + 52.
ProgSize(class) == IF class = "ELFCLASS32" THEN 32 ELSE 56

\* One dynamic entry: the tag and the value, 4 or 8 bytes each.
DynEntry(file, tag, value) ==
    LET n == IF file.Class = "ELFCLASS32" THEN 4 ELSE 8
    IN PutInt(file.ByteOrder, tag, n) \o PutInt(file.ByteOrder, value, n)

\* The loop over the tag -> value map, keys in the order the runtime yields them.
RECURSIVE DynamicBytes(_, _)
DynamicBytes(file, keys) ==
    IF keys = <<>> THEN <<>>
    ELSE DynEntry(file, Head(keys), file.DynamicTags[Head(keys)])
             \o DynamicBytes(file, Tail(keys))

\* The loop over f.Sections, from section number i on, after buf was written.
RECURSIVE WriteSections(_, _, _, _)
WriteSections(file, keys, i, w) ==
    IF i >= Len(file.Sections) THEN w
    ELSE LET s == Sec(file, i)
             padded == IF s.Offset # 0 /\ Len(w.buf) < s.Offset
                       THEN w.buf \o Zeros(s.Offset - Len(w.buf))
                       ELSE w.buf
             payload == IF s.Type = "SHT_DYNAMIC" THEN DynamicBytes(file, keys)
                        ELSE s.data
         IN IF s.Type = "SHT_NULL" \/ s.Type = "SHT_NOBITS" \/ s.FileSize = 0
            THEN WriteSections(file, keys, i + 1, w)
            ELSE IF Len(w.buf) > s.Offset
            THEN WriteSections(file, keys, i + 1,
                               [w EXCEPT !.skipped = w.skipped \cup {i}])
            ELSE WriteSections(file, keys, i + 1, [w EXCEPT !.buf = padded \o payload])

Section32or64(s) ==
    [Type |-> s.Type, Flags |-> s.Flags, Addr |-> s.Addr, Off |-> s.Offset,
     Size |-> s.Size, Link |-> s.Link, Info |-> s.Info, Addralign |-> s.Addralign,
     Entsize |-> s.Entsize]

Bytes(file, keys) ==
    LET head == Fill(HeaderByte, HeaderSize(file.Class))
                    \o Fill(ProgByte, Len(file.Progs) * ProgSize(file.Class))
        w == WriteSections(file, keys, 0, [buf |-> head, skipped |-> {}])
        body == IF Len(w.buf) < file.Shoff
                THEN w.buf \o Zeros(file.Shoff - Len(w.buf))
                ELSE w.buf
    IN [bytes |-> body, skipped |-> w.skipped, err |-> "",
        sht |-> [i \in 1..Len(file.Sections) |-> Section32or64(file.Sections[i])]]

\* The orders in which a range over the map can yield its keys.
KeyOrders(m) ==
    { p \in [1..Cardinality(DOMAIN m) -> DOMAIN m] :
        \A i, j \in 1..Cardinality(DOMAIN m) : p[i] = p[j] => i = j }

\* The payload of a dynamic section holding the entries tags.
RECURSIVE DynamicData(_, _, _)
DynamicData(class, order, tags) ==
    IF tags = <<>> THEN <<>>
    ELSE DynEntry([Class |-> class, ByteOrder |-> order], Head(tags).Tag, Head(tags).Value)
             \o DynamicData(class, order, Tail(tags))

\* A 64-bit shared library that needs two libraries: DT_NEEDED appears twice.
Lib64Tags ==
    << Tag(DT_NEEDED, 1), Tag(DT_NEEDED, 9), Tag(DT_SONAME, 17), Tag(DT_PLTREL, DT_RELA),
       Tag(DT_NULL, 0) >>

Lib64Names == StrTab(<<<<>>, N_text, N_dynamic, N_shstrtab>>)

Lib64 ==
    NewFile("ELFCLASS64", "LittleEndian",
        << NullSection,
           Hdr(N_text, "SHT_PROGBITS", {"SHF_ALLOC"}, 4216, 120, 8, 0, 0, 8, 0, Fill(2, 8)),
           Hdr(N_dynamic, "SHT_DYNAMIC", {"SHF_ALLOC"}, 4224, 128, 80, 3, 0, 8, 16,
               DynamicData("ELFCLASS64", "LittleEndian", Lib64Tags)),
           Hdr(N_shstrtab, "SHT_STRTAB", {}, 0, 208, Len(Lib64Names), 0, 0, 1, 0,
               Lib64Names) >>,
        << Load(0, 4096, 208, 208) >>,
        3, 240, Lib64Tags, <<>>, <<>>)

\* A 32-bit object whose section header table lists .shstrtab before the
\* sections that precede it in the file.
Shuffled32Names == StrTab(<<<<>>, N_shstrtab, N_text, N_data>>)

Shuffled32 ==
    NewFile("ELFCLASS32", "LittleEndian",
        << NullSection,
           Hdr(N_shstrtab, "SHT_STRTAB", {}, 0, 64, Len(Shuffled32Names), 0, 0, 1, 0,
               Shuffled32Names),
           Hdr(N_text, "SHT_PROGBITS", {"SHF_ALLOC"}, 0, 52, 8, 0, 0, 4, 0, Fill(2, 8)),
           Hdr(N_data, "SHT_PROGBITS", {"SHF_ALLOC"}, 0, 60, 4, 0, 0, 4, 0, Fill(4, 4)) >>,
        <<>>, 1, 88, <<>>, <<>>, <<>>)

SerializedFiles == {Obj32, Lib64, Shuffled32}

InitBytes ==
    /\ f \in SerializedFiles
    /\ prev = f
    /\ call = NoArgs
    /\ err = ""
    /\ clean = TRUE
    /\ edits = 0
    /\ out = <<>>

\* Bytes() is called on the File; it leaves the File as it is.
BytesCalled ==
    /\ Len(out) < MaxCalls
    /\ \E keys \in KeyOrders(f.DynamicTags) : out' = Append(out, Bytes(f, keys))
    /\ UNCHANGED <<f, prev, call, err, clean, edits>>

NextBytes == BytesCalled

SpecBytes == InitBytes /\ [][NextBytes]_vars

\* C5: Bytes() on a parsed, unedited file reproduces the original byte stream:
\* no section with file bytes is skipped, each is emitted at its declared
\* offset with its parsed payload (the dynamic section with the same entries
\* in the same order and of the same total length), the section header table
\* starts at the declared offset, and two serializations of the same model
\* give identical bytes.
C5_BytesRoundTrip ==
    /\ \A k \in 1..Len(out) :
          /\ out[k].skipped = {}
          /\ \A i \in SecIndices(f) :
                Occupies(Sec(f, i))
                    => SubSeq(out[k].bytes, Sec(f, i).Offset + 1,
                              Sec(f, i).Offset + Sec(f, i).FileSize) = Sec(f, i).data
          /\ Len(out[k].bytes) = f.Shoff
    /\ Len(out) = 2 => out[1] = out[2]

----------------------------------------------------------------------------
(* Mach-O: the File, its relocation edit verbs and the serialization-time  *)
(* relayout.  Sections and loads are numbered from 1; 0 is a nil pointer.  *)

Nil == [nil |-> TRUE]

alignUp64(value, align) ==
    IF align = 0 THEN value
    ELSE IF value % align = 0 THEN value
    ELSE value + (align - (value % align))

rebaseOpcodeDone == 0

rebaseOpcodeSetTypeImm == 16

rebaseOpcodeSetSegmentAndOffsetULEB == 32

rebaseOpcodeDoRebaseImmTimes == 80

rebaseTypePointer == 1

bindOpcodeDone == 0

bindOpcodeSetDylibOrdinalImm == 16

bindOpcodeSetSymbolTrailingFlags == 64

bindOpcodeSetTypeImm == 80

bindOpcodeSetSegmentAndOffsetULEB == 112

bindOpcodeDoBind == 144

bindTypePointer == 1

\* File.Section(name): the first section of that name, 0 when there is none.
MachoSection(file, name) ==
    LET hits == { i \in 1..Len(file.Sections) : file.Sections[i].Name = name }
    IN IF hits = {} THEN 0 ELSE Min(hits)

\* The index of the first symbol of that name, -1 when there is none.
SymIndex(file, symbolName) ==
    LET hits == { i \in 1..Len(file.Symtab.Syms) : file.Symtab.Syms[i].Name = symbolName }
    IN IF hits = {} THEN -1 ELSE Min(hits) - 1

MachoAddRelocation(file, sectionName, rel) ==
    LET si == MachoSection(file, sectionName)
    IN IF si = 0 THEN [f |-> file, err |-> "section not found"]
       ELSE [f |-> [file EXCEPT !.Sections[si].Relocs = Append(@, rel)], err |-> ""]

MachoRemoveRelocations(file, sectionName) ==
    LET si == MachoSection(file, sectionName)
    IN IF si = 0 THEN [f |-> file, err |-> "section not found"]
       ELSE [f |-> [file EXCEPT !.Sections[si].Relocs = <<>>], err |-> ""]

SetDylibOrdinalForSymbolIndex(file, index, ordinal) ==
    IF ordinal > 15 THEN [f |-> file, err |-> "dylib ordinal out of range"]
    ELSE [f |-> [file EXCEPT !.dylibOrdinalBySymbol =
                    [i \in DOMAIN @ \cup {index} |-> IF i = index THEN ordinal ELSE @[i]]],
          err |-> ""]

SetBindKindForSymbolIndex(file, index, kind) ==
    [f |-> [file EXCEPT !.bindKindBySymbol =
               [i \in DOMAIN @ \cup {index} |-> IF i = index THEN kind ELSE @[i]]],
     err |-> ""]

SetBindKindForSymbol(file, symbolName, kind) ==
    IF file.Symtab = Nil THEN [f |-> file, err |-> "symbol table not available"]
    ELSE IF SymIndex(file, symbolName) < 0 THEN [f |-> file, err |-> "symbol not found"]
    ELSE SetBindKindForSymbolIndex(file, SymIndex(file, symbolName), kind)

AddRelocationForSymbolWithDylibOrdinal(file, sectionName, symbolName, addr, relType, length, pcrel, dylibOrdinal) ==
    LET symIndex == SymIndex(file, symbolName)
        rel == [Addr |-> addr, Value |-> symIndex, Type |-> relType, Len |-> length,
                Pcrel |-> pcrel, Extern |-> TRUE, Scattered |-> FALSE]
        added == MachoAddRelocation(file, sectionName, rel)
    IN IF file.Symtab = Nil THEN [f |-> file, err |-> "symbol table not available"]
       ELSE IF symIndex < 0 THEN [f |-> file, err |-> "symbol not found"]
       ELSE IF added.err # "" THEN added
       ELSE SetDylibOrdinalForSymbolIndex(added.f, symIndex, dylibOrdinal)

MachoAddRelocationForSymbol(file, sectionName, symbolName, addr, relType, length, pcrel) ==
    IF file.Symtab = Nil THEN [f |-> file, err |-> "symbol table not available"]
    ELSE IF SymIndex(file, symbolName) < 0 THEN [f |-> file, err |-> "symbol not found"]
    ELSE AddRelocationForSymbolWithDylibOrdinal(file, sectionName, symbolName, addr,
                                                relType, length, pcrel, 0)

----------------------------------------------------------------------------
(* Mach-O: regeneration of the dyld info and layout of the relocations.    *)

endOfSections(file) ==
    Max({0} \cup { file.Sections[i].Offset + file.Sections[i].Size :
                     i \in 1..Len(file.Sections) })

\* dyldInfoEndLimit that finds nothing behind the sections.
dyldInfoEndLimitNone(file) == 0

dyldInfoEndLimit(file) ==
    LET cands ==
            (IF file.FuncStarts # Nil THEN {file.FuncStarts.Offset} ELSE {})
            \cup (IF file.DataInCode # Nil THEN {file.DataInCode.Offset} ELSE {})
            \cup (IF file.Symtab # Nil THEN {file.Symtab.Symoff} ELSE {})
            \cup (IF file.Dysymtab # Nil THEN {file.Dysymtab.Indirectsymoff} ELSE {})
            \cup (IF file.SigBlock # Nil THEN {file.SigBlock.Offset} ELSE {})
            \cup (IF file.DylinkInfo # Nil
                  THEN {file.DylinkInfo.LazyBindingOffset,
                        file.DylinkInfo.WeakBindingOffset,
                        file.DylinkInfo.ExportInfoOffset}
                  ELSE {})
    IN IF cands \ {0} = {} THEN 0 ELSE Min(cands \ {0})

\* The loads that are segments, in load-command order.
SegmentLoads(file) == { i \in 1..Len(file.Loads) : file.Loads[i].kind = "Segment" }

\* segmentOrdinals()[name]: the ordinal of the last segment of that name, -1 if none.
segmentOrdinals(file, name) ==
    LET named == { i \in SegmentLoads(file) : file.Loads[i].Name = name }
    IN IF named = {} THEN -1
       ELSE Cardinality({ j \in SegmentLoads(file) : j < Max(named) })

\* segmentAddr that takes every segment to start at address 0.
segmentAddrZero(file, name) == 0

segmentAddr(file, name) ==
    LET named == { i \in SegmentLoads(file) : file.Loads[i].Name = name }
    IN IF named = {} THEN 0 ELSE file.Loads[Min(named)].Addr

symbolName(file, index) ==
    IF file.Symtab = Nil THEN [name |-> <<>>, err |-> "symbol table not available"]
    ELSE IF index >= Len(file.Symtab.Syms)
    THEN [name |-> <<>>, err |-> "symbol index out of range"]
    ELSE [name |-> file.Symtab.Syms[index + 1].Name, err |-> ""]

\* dylibOrdinalForSymbol that ignores the recorded ordinal.
dylibOrdinalForSymbolUnset(file, index) == [ordinal |-> 0, err |-> ""]

dylibOrdinalForSymbol(file, index) ==
    LET ordinal == IF index \in DOMAIN file.dylibOrdinalBySymbol
                   THEN file.dylibOrdinalBySymbol[index] ELSE 0
    IN IF ordinal > 15 THEN [ordinal |-> 0, err |-> "dylib ordinal out of range"]
       ELSE [ordinal |-> ordinal, err |-> ""]

bindKindForSymbol(file, index) ==
    IF index \in DOMAIN file.bindKindBySymbol THEN file.bindKindBySymbol[index]
    ELSE "BindNormal"

RECURSIVE encodeULEB128(_)
encodeULEB128(value) ==
    IF value \div 128 # 0 THEN <<(value % 128) + 128>> \o encodeULEB128(value \div 128)
    ELSE <<value % 128>>

\* The relocations of all sections, in section-list order and relocation order.
RECURSIVE RelocsFrom(_, _)
RelocsFrom(file, i) ==
    IF i > Len(file.Sections) THEN <<>>
    ELSE [k \in 1..Len(file.Sections[i].Relocs) |->
             [s |-> i, rel |-> file.Sections[i].Relocs[k]]] \o RelocsFrom(file, i + 1)

\* One turn of the inner loop of encodeDyldInfoFromRelocs.
EncodeOne(file, st, item) ==
    LET s == file.Sections[item.s]
        rel == item.rel
        ordinal == segmentOrdinals(file, s.Seg)
        seg == ordinal % 16
        offset == s.Addr + rel.Addr
        segBase == segmentAddr(file, s.Seg)
        segOffset == offset - segBase
        dylib == dylibOrdinalForSymbol(file, rel.Value)
        kind == bindKindForSymbol(file, rel.Value)
        stream == IF kind = "BindWeak" THEN "weak"
                  ELSE IF kind = "BindLazy" THEN "lazy" ELSE "bind"
        name == symbolName(file, rel.Value)
        switch == IF dylib.ordinal # st.ordinal[stream]
                  THEN <<bindOpcodeSetDylibOrdinalImm + dylib.ordinal>> ELSE <<>>
        bound == switch \o <<bindOpcodeSetSegmentAndOffsetULEB + seg>>
                     \o encodeULEB128(segOffset)
                     \o <<bindOpcodeSetSymbolTrailingFlags>> \o name.name \o <<0>>
                     \o <<bindOpcodeDoBind>>
        rebased == <<rebaseOpcodeSetSegmentAndOffsetULEB + seg>>
                       \o encodeULEB128(segOffset) \o <<rebaseOpcodeDoRebaseImmTimes + 1>>
    IN IF st.err # "" THEN st
       ELSE IF ordinal = -1 THEN [st EXCEPT !.err = "unknown segment for section"]
       ELSE IF offset < segBase THEN [st EXCEPT !.err = "relocation offset underflows segment"]
       ELSE IF ~rel.Extern THEN [st EXCEPT !.rebase = @ \o rebased]
       ELSE IF dylib.err # "" THEN [st EXCEPT !.err = dylib.err]
       ELSE IF name.err # "" THEN [st EXCEPT !.err = name.err]
       ELSE [st EXCEPT ![stream] = @ \o bound, !.ordinal[stream] = dylib.ordinal]

RECURSIVE EncodeAll(_, _, _)
EncodeAll(file, st, items) ==
    IF items = <<>> THEN st ELSE EncodeAll(file, EncodeOne(file, st, Head(items)), Tail(items))

\* A bind stream is terminated only when it holds more than its two start bytes.
Done(stream) == IF Len(stream) > 1 THEN stream \o <<bindOpcodeDone>> ELSE stream

\* The end of encodeDyldInfoFromRelocs: st is the state the loops leave.
FinishStreams(st) ==
    IF st.err # ""
    THEN [rebase |-> <<>>, bind |-> <<>>, weak |-> <<>>, lazy |-> <<>>, err |-> st.err]
    ELSE [rebase |-> st.rebase \o <<rebaseOpcodeDone>>, bind |-> Done(st.bind),
          weak |-> Done(st.weak), lazy |-> Done(st.lazy), err |-> ""]

encodeDyldInfoFromRelocs(file) ==
    LET bindStart == <<bindOpcodeSetTypeImm + bindTypePointer,
                       bindOpcodeSetDylibOrdinalImm + 0>>
    IN IF SegmentLoads(file) = {}
       THEN [rebase |-> <<>>, bind |-> <<>>, weak |-> <<>>, lazy |-> <<>>, err |-> ""]
       ELSE FinishStreams(
                EncodeAll(file,
                          [rebase |-> <<rebaseOpcodeSetTypeImm + rebaseTypePointer>>,
                           bind |-> bindStart, weak |-> bindStart, lazy |-> bindStart,
                           ordinal |-> [bind |-> 0, weak |-> 0, lazy |-> 0], err |-> ""],
                          RelocsFrom(file, 1)))

\* The LC_DYLD_INFO load command is rewritten from the DylinkInfo.
refreshDylinkInfoLoadBytes(file) ==
    LET hits == { i \in 1..Len(file.Loads) :
                    /\ file.Loads[i].kind = "LoadBytes"
                    /\ file.Loads[i].Len >= 8
                    /\ file.Loads[i].cmd = "LoadCmdDylinkInfo" }
        d == file.DylinkInfo
    IN IF file.DylinkInfo = Nil \/ hits = {} THEN file
       ELSE [file EXCEPT !.Loads[Min(hits)].hdr =
                [@ EXCEPT
                   !.Rebaseoff = IF d.RebaseLen > 0 THEN d.RebaseOffset ELSE @,
                   !.Rebasesize = IF d.RebaseLen > 0 THEN d.RebaseLen ELSE @,
                   !.Bindinginfooff = IF d.BindingInfoLen > 0 THEN d.BindingInfoOffset ELSE @,
                   !.Bindinginfosize = IF d.BindingInfoLen > 0 THEN d.BindingInfoLen ELSE @,
                   !.Weakbindingoff = IF d.WeakBindingLen > 0 THEN d.WeakBindingOffset ELSE @,
                   !.Weakbindingsize = IF d.WeakBindingLen > 0 THEN d.WeakBindingLen ELSE @,
                   !.Lazybindingoff = IF d.LazyBindingLen > 0 THEN d.LazyBindingOffset ELSE @,
                   !.Lazybindingsize = IF d.LazyBindingLen > 0 THEN d.LazyBindingLen ELSE @,
                   !.Exportinfooff = IF d.ExportInfoLen > 0 THEN d.ExportInfoOffset ELSE @,
                   !.Exportinfosize = IF d.ExportInfoLen > 0 THEN d.ExportInfoLen ELSE @]]

\* prepareDyldInfoFromRelocs once the four streams are encoded (enc).
PlaceDyldInfo(file, enc) ==
    LET start == alignUp64(endOfSections(file), 4)
        limit == dyldInfoEndLimit(file)
        total == Len(enc.rebase) + Len(enc.bind) + Len(enc.weak) + Len(enc.lazy)
        placed == [file.DylinkInfo EXCEPT
                     !.RebaseDat = enc.rebase, !.RebaseLen = Len(enc.rebase),
                     !.RebaseOffset = start,
                     !.BindingInfoDat = enc.bind, !.BindingInfoLen = Len(enc.bind),
                     !.BindingInfoOffset = start + Len(enc.rebase),
                     !.WeakBindingDat = enc.weak, !.WeakBindingLen = Len(enc.weak),
                     !.WeakBindingOffset = start + Len(enc.rebase) + Len(enc.bind),
                     !.LazyBindingDat = enc.lazy, !.LazyBindingLen = Len(enc.lazy),
                     !.LazyBindingOffset =
                         start + Len(enc.rebase) + Len(enc.bind) + Len(enc.weak)]
    IN IF enc.err # "" THEN [f |-> file, err |-> enc.err]
       ELSE IF total = 0 THEN [f |-> file, err |-> ""]
       ELSE IF limit # 0 /\ start + total > limit
       THEN [f |-> file, err |-> "not enough room for dyld info"]
       ELSE [f |-> refreshDylinkInfoLoadBytes([file EXCEPT !.DylinkInfo = placed]),
             err |-> ""]

prepareDyldInfoFromRelocs(file) ==
    IF file.DylinkInfo = Nil THEN [f |-> file, err |-> ""]
    ELSE PlaceDyldInfo(file, encodeDyldInfoFromRelocs(file))

\* maxFileOffset that looks at the sections only.
maxFileOffsetSections(file) == endOfSections(file)

maxFileOffset(file) ==
    LET d == file.DylinkInfo
    IN Max({0, file.FinalSegEnd}
           \cup { file.Sections[i].Offset + file.Sections[i].Size :
                    i \in 1..Len(file.Sections) }
           \cup (IF d # Nil
                 THEN {d.RebaseOffset + d.RebaseLen, d.BindingInfoOffset + d.BindingInfoLen,
                       d.LazyBindingOffset + d.LazyBindingLen,
                       d.ExportInfoOffset + d.ExportInfoLen,
                       d.WeakBindingOffset + d.WeakBindingLen}
                 ELSE {})
           \cup (IF file.FuncStarts # Nil
                 THEN {file.FuncStarts.Offset + file.FuncStarts.Len} ELSE {})
           \cup (IF file.DataInCode # Nil
                 THEN {file.DataInCode.Offset + file.DataInCode.Len} ELSE {})
           \cup (IF file.Symtab # Nil
                 THEN {file.Symtab.Symoff + Len(file.Symtab.RawSymtab),
                       file.Symtab.Stroff + Len(file.Symtab.RawStringtab)}
                 ELSE {})
           \cup (IF file.Dysymtab # Nil
                 THEN {file.Dysymtab.Indirectsymoff + Len(file.Dysymtab.RawDysymtab)}
                 ELSE {})
           \cup (IF file.SigBlock # Nil
                 THEN {file.SigBlock.Offset + file.SigBlock.Len} ELSE {}))

Bit(b, weight) == IF b THEN weight ELSE 0

\* A uint32 written in the given byte order, from its four bytes, low byte first.
PutBytes32(order, low) == IF order = "LittleEndian" THEN low ELSE Reverse(low)

\* encodeRelocInfo followed by binary.Write of the relocInfo: Addr, then Symnum.
encodeRelocInfo(rel, order) ==
    LET scatteredAddr == LittleEndian(rel.Addr % 16777216, 3)
                             \o <<(rel.Type % 16) + (rel.Len % 4) * 16
                                    + Bit(rel.Pcrel, 64) + 128>>
        littleSymnum == LittleEndian(rel.Value % 16777216, 3)
                            \o <<Bit(rel.Pcrel, 1) + (rel.Len % 4) * 2
                                   + Bit(rel.Extern, 8) + (rel.Type % 16) * 16>>
        bigSymnum == <<(rel.Type % 16) + Bit(rel.Extern, 16) + (rel.Len % 4) * 32
                         + Bit(rel.Pcrel, 128)>>
                         \o LittleEndian(rel.Value % 16777216, 3)
    IN IF rel.Scattered
       THEN PutBytes32(order, scatteredAddr) \o PutInt(order, rel.Value, 4)
       ELSE PutInt(order, rel.Addr, 4)
                \o PutBytes32(order, IF order = "LittleEndian" THEN littleSymnum
                                     ELSE bigSymnum)

RECURSIVE MachoEncodeRelocations(_, _)
MachoEncodeRelocations(order, relocs) ==
    IF relocs = <<>> THEN <<>>
    ELSE encodeRelocInfo(Head(relocs), order) \o MachoEncodeRelocations(order, Tail(relocs))

\* The loop of prepareRelocationData over the sections, from section i on.
RECURSIVE PlaceRelocs(_, _, _, _)
PlaceRelocs(file, i, start, st) ==
    IF i > Len(file.Sections) THEN st
    ELSE LET s == file.Sections[i]
             offset == alignUp64(st.offset, 4)
             pad == offset - start - Len(st.buf)
             encoded == MachoEncodeRelocations(file.ByteOrder, s.Relocs)
         IN IF Len(s.Relocs) = 0
            THEN PlaceRelocs(file, i + 1, start,
                     [st EXCEPT !.secs[i].Reloff = 0, !.secs[i].Nreloc = 0])
            ELSE PlaceRelocs(file, i + 1, start,
                     [offset |-> offset + Len(encoded),
                      buf |-> st.buf \o Zeros(pad) \o encoded,
                      secs |-> [st.secs EXCEPT ![i].Reloff = offset,
                                               ![i].Nreloc = Len(s.Relocs)]])

\* prepareRelocationData once the dyld info is prepared: file is the File that
\* step leaves, start the offset the relocations are laid out from.
PlaceRelocationData(file, start) ==
    LET placed == PlaceRelocs(file, 1, start,
                              [offset |-> start, buf |-> <<>>, secs |-> file.Sections])
        cleared == [i \in 1..Len(file.Sections) |->
                       [file.Sections[i] EXCEPT !.Reloff = 0, !.Nreloc = 0]]
    IN IF Len(RelocsFrom(file, 1)) = 0
       THEN [f |-> [file EXCEPT !.Sections = cleared], buf |-> <<>>, start |-> 0,
             err |-> ""]
       ELSE [f |-> [file EXCEPT !.Sections = placed.secs], buf |-> placed.buf,
             start |-> start, err |-> ""]

\* prepareRelocationData after its call of prepareDyldInfoFromRelocs returned dyld.
AfterDyldInfo(dyld) ==
    IF dyld.err # "" THEN [f |-> dyld.f, buf |-> <<>>, start |-> 0, err |-> dyld.err]
    ELSE PlaceRelocationData(dyld.f, alignUp64(maxFileOffset(dyld.f), 4))

prepareRelocationData(file) == AfterDyldInfo(prepareDyldInfoFromRelocs(file))

----------------------------------------------------------------------------
(* Mach-O: Write.  w.buf is what was written, w.n is bytesWritten.  The    *)
(* fields of the file header and of the load commands are not modelled:    *)
(* their bytes are fillers.                                                *)

LoadByte == -3

\* The orders sort.Slice can leave the section list in: sorted by Offset.
SortedByOffset(secs) ==
    { p \in [1..Len(secs) -> 1..Len(secs)] :
        /\ \A i, j \in 1..Len(secs) : p[i] = p[j] => i = j
        /\ \A i, j \in 1..Len(secs) : i < j => secs[p[i]].Offset <= secs[p[j]].Offset }

\* The loop over the sorted sections, from position i on.
RECURSIVE WriteMachoSections(_, _, _)
WriteMachoSections(secs, i, w) ==
    IF i > Len(secs) THEN w
    ELSE LET s == secs[i]
             pad == IF w.n < s.Offset THEN s.Offset - w.n ELSE 0
         IN IF w.n > s.Offset
            THEN WriteMachoSections(secs, i + 1,
                     [w EXCEPT !.skipped = w.skipped \cup {s.Name}])
            ELSE WriteMachoSections(secs, i + 1,
                     [w EXCEPT !.buf = w.buf \o Zeros(pad) \o s.data,
                               !.n = w.n + pad + Len(s.data)])

\* Pad up to offset if bytesWritten is below it, write dat and count len bytes.
WriteAt(w, offset, dat, len) ==
    LET pad == IF offset - w.n > 0 THEN offset - w.n ELSE 0
    IN [w EXCEPT !.buf = w.buf \o Zeros(pad) \o dat, !.n = w.n + pad + len]

\* if cond { pad up to offset; write dat; count len bytes }
WriteIf(cond, w, offset, dat, len) == IF cond THEN WriteAt(w, offset, dat, len) ELSE w

\* The five streams in the order Write emits them: rebase, bind, lazy bind,
\* export, weak bind (the innermost call is the first write).
WriteDylinkInfo(d, w) ==
    WriteIf(Len(d.WeakBindingDat) > 0,
        WriteIf(Len(d.ExportInfoDat) > 0,
            WriteIf(Len(d.LazyBindingDat) > 0,
                WriteIf(Len(d.BindingInfoDat) > 0,
                    WriteIf(Len(d.RebaseDat) > 0,
                        w, d.RebaseOffset, d.RebaseDat, d.RebaseLen),
                    d.BindingInfoOffset, d.BindingInfoDat, d.BindingInfoLen),
                d.LazyBindingOffset, d.LazyBindingDat, d.LazyBindingLen),
            d.ExportInfoOffset, d.ExportInfoDat, d.ExportInfoLen),
        d.WeakBindingOffset, d.WeakBindingDat, d.WeakBindingLen)

\* Write with the section list left in the order sorted (a member of SortedByOffset).
\* The bytes of all load commands: the sum of their lengths.
RECURSIVE LoadsLen(_)
LoadsLen(loads) == IF loads = <<>> THEN 0 ELSE Head(loads).Len + LoadsLen(Tail(loads))

\* What a Write that wrote w returns and leaves behind.
WriteResult(file, w, e) == [f |-> file, bytes |-> w.buf, skipped |-> w.skipped, err |-> e]

\* Write from the symbol table on; w is what was written up to there.  The
\* writes, innermost first: symbol table, dynamic symbol table, string table,
\* signature block, padding up to FinalSegEnd.
WriteLinkedit(file, w) ==
    IF file.Symtab = Nil \/ file.Dysymtab = Nil
    THEN WriteResult(file, w, "panic: nil pointer dereference")
    ELSE WriteResult(file,
           WriteAt(
             WriteIf(file.SigBlock # Nil,
               WriteAt(
                 WriteAt(
                   WriteAt(w, file.Symtab.Symoff, file.Symtab.RawSymtab,
                           Len(file.Symtab.RawSymtab)),
                   file.Dysymtab.Indirectsymoff, file.Dysymtab.RawDysymtab,
                   Len(file.Dysymtab.RawDysymtab)),
                 file.Symtab.Stroff, file.Symtab.RawStringtab,
                 Len(file.Symtab.RawStringtab)),
               file.SigBlock.Offset, file.SigBlock.RawDat, file.SigBlock.Len),
             file.FinalSegEnd, <<>>, 0),
           "")

\* Write up to the symbol table, on the File with its section list sorted.
\* The writes, innermost first: header and load commands, sections, dyld
\* info, function starts, data in code.
WriteSorted(file) ==
    WriteLinkedit(file,
      WriteIf(file.DataInCode # Nil,
        WriteIf(file.FuncStarts # Nil,
          IF file.DylinkInfo # Nil
          THEN WriteDylinkInfo(file.DylinkInfo,
                   WriteMachoSections(file.Sections, 1,
                       [buf |-> Fill(HeaderByte, file.HeaderLength) \o Zeros(4)
                                    \o Fill(LoadByte, LoadsLen(file.Loads)),
                        n |-> file.HeaderLength + 4 + LoadsLen(file.Loads),
                        skipped |-> {}]))
          ELSE WriteMachoSections(file.Sections, 1,
                   [buf |-> Fill(HeaderByte, file.HeaderLength) \o Zeros(4)
                                \o Fill(LoadByte, LoadsLen(file.Loads)),
                    n |-> file.HeaderLength + 4 + LoadsLen(file.Loads),
                    skipped |-> {}]),
          file.FuncStarts.Offset, file.FuncStarts.RawDat, file.FuncStarts.Len),
        file.DataInCode.Offset, file.DataInCode.RawDat, file.DataInCode.Len))

Write(file, sorted) ==
    WriteSorted([file EXCEPT !.Sections =
                    [i \in 1..Len(file.Sections) |-> file.Sections[sorted[i]]]])

----------------------------------------------------------------------------
(* Parsed Mach-O files.                                                    *)

Segment(name, addr, len) == [kind |-> "Segment", Name |-> name, Addr |-> addr, Len |-> len]

NoHdr == [Rebaseoff |-> 0, Rebasesize |-> 0, Bindinginfooff |-> 0, Bindinginfosize |-> 0,
          Weakbindingoff |-> 0, Weakbindingsize |-> 0, Lazybindingoff |-> 0,
          Lazybindingsize |-> 0, Exportinfooff |-> 0, Exportinfosize |-> 0]

LoadBytes(cmd, len) == [kind |-> "LoadBytes", cmd |-> cmd, Len |-> len, hdr |-> NoHdr]

\* The LC_DYLD_INFO command of a parsed file says what its DylinkInfo says.
DylinkInfoCmd(d) ==
    [kind |-> "LoadBytes", cmd |-> "LoadCmdDylinkInfo", Len |-> 48,
     hdr |-> [Rebaseoff |-> d.RebaseOffset, Rebasesize |-> d.RebaseLen,
              Bindinginfooff |-> d.BindingInfoOffset, Bindinginfosize |-> d.BindingInfoLen,
              Weakbindingoff |-> d.WeakBindingOffset, Weakbindingsize |-> d.WeakBindingLen,
              Lazybindingoff |-> d.LazyBindingOffset, Lazybindingsize |-> d.LazyBindingLen,
              Exportinfooff |-> d.ExportInfoOffset, Exportinfosize |-> d.ExportInfoLen]]

Stream(dat, offset) == [Dat |-> dat, Offset |-> offset]

Dylink(rebase, bind, weak, lazy, export) ==
    [RebaseDat |-> rebase.Dat, RebaseLen |-> Len(rebase.Dat), RebaseOffset |-> rebase.Offset,
     BindingInfoDat |-> bind.Dat, BindingInfoLen |-> Len(bind.Dat),
     BindingInfoOffset |-> bind.Offset,
     WeakBindingDat |-> weak.Dat, WeakBindingLen |-> Len(weak.Dat),
     WeakBindingOffset |-> weak.Offset,
     LazyBindingDat |-> lazy.Dat, LazyBindingLen |-> Len(lazy.Dat),
     LazyBindingOffset |-> lazy.Offset,
     ExportInfoDat |-> export.Dat, ExportInfoLen |-> Len(export.Dat),
     ExportInfoOffset |-> export.Offset]

MachoSec(name, seg, addr, offset, size, reloff, relocs, data) ==
    [Name |-> name, Seg |-> seg, Addr |-> addr, Offset |-> offset, Size |-> size,
     Reloff |-> reloff, Nreloc |-> Len(relocs), Relocs |-> relocs, data |-> data]

Sym_a == <<95, 97>>

Sym_b == <<95, 98>>

Sym_missing == <<95, 122>>

Symbols2(symoff, stroff) ==
    [Symoff |-> symoff, Stroff |-> stroff, Syms |-> <<[Name |-> Sym_a], [Name |-> Sym_b]>>,
     RawSymtab |-> Fill(21, 32), RawStringtab |-> Fill(23, 16)]

\* An executable whose dyld info starts 16 bytes after the last section and
\* has weak-bind data between the bind and the lazy-bind stream.
ExecDylink ==
    Dylink(Stream(Fill(11, 8), 592), Stream(Fill(12, 16), 600), Stream(Fill(13, 8), 616),
           Stream(Fill(14, 8), 624), Stream(Fill(15, 8), 632))

MachoExec ==
    [ByteOrder |-> "LittleEndian", HeaderLength |-> 28,
     Loads |-> << Segment("__TEXT", 4096, 152), Segment("__DATA", 8192, 152),
                  Segment("__LINKEDIT", 12288, 72), DylinkInfoCmd(ExecDylink),
                  LoadBytes("LoadCmdSymtab", 24), LoadBytes("LoadCmdDysymtab", 80) >>,
     Sections |-> << MachoSec("__text", "__TEXT", 4656, 560, 8, 0, <<>>, Fill(2, 8)),
                     MachoSec("__data", "__DATA", 8192, 568, 8, 0, <<>>, Fill(4, 8)) >>,
     DylinkInfo |-> ExecDylink,
     Symtab |-> Symbols2(640, 680),
     Dysymtab |-> [Indirectsymoff |-> 672, RawDysymtab |-> Fill(22, 8)],
     FuncStarts |-> Nil, DataInCode |-> Nil, SigBlock |-> Nil,
     dylibOrdinalBySymbol |-> <<>>, bindKindBySymbol |-> <<>>,
     FinalSegEnd |-> 696]

\* An executable whose dyld info follows the last section directly, without
\* weak-bind data.
TightDylink ==
    Dylink(Stream(Fill(11, 4), 576), Stream(Fill(12, 4), 580), Stream(<<>>, 0),
           Stream(Fill(14, 4), 584), Stream(Fill(15, 4), 588))

MachoTight ==
    [MachoExec EXCEPT !.Loads[4] = DylinkInfoCmd(TightDylink),
                      !.DylinkInfo = TightDylink,
                      !.Symtab = Symbols2(592, 632),
                      !.Dysymtab = [Indirectsymoff |-> 624, RawDysymtab |-> Fill(22, 8)],
                      !.FinalSegEnd = 648]

\* An object file: one segment, no dyld info, one relocation in __text.
MachoObj ==
    [ByteOrder |-> "LittleEndian", HeaderLength |-> 28,
     Loads |-> << Segment("__TEXT", 0, 232), LoadBytes("LoadCmdSymtab", 24),
                  LoadBytes("LoadCmdDysymtab", 80) >>,
     Sections |-> << MachoSec("__text", "__TEXT", 0, 368, 8, 384,
                              <<[Addr |-> 4, Value |-> 1, Type |-> 2, Len |-> 2,
                                 Pcrel |-> TRUE, Extern |-> TRUE, Scattered |-> FALSE]>>,
                              Fill(2, 8)),
                     MachoSec("__data", "__TEXT", 8, 376, 8, 0, <<>>, Fill(4, 8)) >>,
     DylinkInfo |-> Nil,
     Symtab |-> Symbols2(392, 424),
     Dysymtab |-> [Indirectsymoff |-> 0, RawDysymtab |-> <<>>],
     FuncStarts |-> Nil, DataInCode |-> Nil, SigBlock |-> Nil,
     dylibOrdinalBySymbol |-> <<>>, bindKindBySymbol |-> <<>>,
     FinalSegEnd |-> 384]

\* An executable whose __text section declares an address below the address
\* of its segment.
MachoLow == [MachoExec EXCEPT !.Sections[1].Addr = 4000]

\* An executable with a zero-fill section: __bss takes no file bytes, declares
\* file offset 0 and comes last in the section list.
MachoBss ==
    [MachoExec EXCEPT !.Sections =
        Append(@, MachoSec("__bss", "__DATA", 8200, 0, 16, 0, <<>>, <<>>))]

\* A signed executable without weak-bind, lazy-bind and export data: function
\* starts, data-in-code, the symbol tables and the signature block follow the
\* bind stream directly.
SignedDylink ==
    Dylink(Stream(Fill(11, 4), 576), Stream(Fill(12, 4), 580), Stream(<<>>, 0),
           Stream(<<>>, 0), Stream(<<>>, 0))

MachoSigned ==
    [MachoExec EXCEPT !.Loads[4] = DylinkInfoCmd(SignedDylink),
                      !.DylinkInfo = SignedDylink,
                      !.FuncStarts = [Offset |-> 584, Len |-> 8, RawDat |-> Fill(16, 8)],
                      !.DataInCode = [Offset |-> 592, Len |-> 8, RawDat |-> Fill(17, 8)],
                      !.Symtab = Symbols2(600, 640),
                      !.Dysymtab = [Indirectsymoff |-> 632, RawDysymtab |-> Fill(22, 8)],
                      !.SigBlock = [Offset |-> 656, Len |-> 16, RawDat |-> Fill(18, 16)],
                      !.FinalSegEnd = 672]

MachoFiles == {MachoExec, MachoTight, MachoObj, MachoLow, MachoBss, MachoSigned}

----------------------------------------------------------------------------
(* The specification of the Mach-O edit verbs and serialization steps.     *)

InitMacho ==
    /\ f \in MachoFiles
    /\ prev = f
    /\ call = [verb |-> ""]
    /\ err = ""
    /\ clean = TRUE
    /\ edits = 0
    /\ out = <<>>

MachoCalled(c, res) ==
    /\ edits < MaxEdits
    /\ f' = res.f
    /\ prev' = f
    /\ call' = c
    /\ err' = res.err
    /\ clean' = (clean /\ res.err = "")
    /\ edits' = edits + 1
    /\ out' = out

PointerReloc ==
    [Addr |-> 0, Value |-> 0, Type |-> 0, Len |-> 3, Pcrel |-> FALSE, Extern |-> FALSE,
     Scattered |-> FALSE]

MachoAddRelocationCalled ==
    \E sectionName \in {"__text", "__data", "__none"} :
        MachoCalled([verb |-> "AddRelocation", section |-> sectionName],
                    MachoAddRelocation(f, sectionName, PointerReloc))

MachoRemoveRelocationsCalled ==
    \E sectionName \in {"__text", "__none"} :
        MachoCalled([verb |-> "RemoveRelocations", section |-> sectionName],
                    MachoRemoveRelocations(f, sectionName))

MachoAddRelocationForSymbolCalled ==
    \E symbol \in {Sym_a, Sym_b, Sym_missing} :
        MachoCalled([verb |-> "AddRelocationForSymbol", section |-> "__text",
                     symbol |-> symbol],
                    MachoAddRelocationForSymbol(f, "__text", symbol, 0, 0, 3, FALSE))

\* The arguments the verb is called with: an ordinal in range and one out of
\* range, a section and a symbol the file does not have.
OrdinalCalls ==
    { [section |-> "__text", symbol |-> Sym_b, ordinal |-> 1],
      [section |-> "__text", symbol |-> Sym_b, ordinal |-> 16],
      [section |-> "__none", symbol |-> Sym_b, ordinal |-> 1],
      [section |-> "__text", symbol |-> Sym_missing, ordinal |-> 1] }

AddRelocationForSymbolWithDylibOrdinalCalled ==
    \E a \in OrdinalCalls :
        MachoCalled([verb |-> "AddRelocationForSymbolWithDylibOrdinal",
                     section |-> a.section, symbol |-> a.symbol, ordinal |-> a.ordinal],
                    AddRelocationForSymbolWithDylibOrdinal(f, a.section, a.symbol, 0, 0, 3,
                                                           FALSE, a.ordinal))

SetBindKindForSymbolCalled ==
    MachoCalled([verb |-> "SetBindKindForSymbol", symbol |-> Sym_b, kind |-> "BindWeak"],
                SetBindKindForSymbol(f, Sym_b, "BindWeak"))

\* A step of the serialization ran on the File: it left res.f and res.err
\* behind and produced the bytes `bytes`.
Serialized(kind, res, bytes, start) ==
    /\ Len(out) < MaxCalls
    /\ f' = res.f
    /\ prev' = f
    /\ call' = [verb |-> kind]
    /\ err' = res.err
    /\ clean' = (clean /\ res.err = "")
    /\ out' = Append(out, [kind |-> kind, err |-> res.err, edits |-> edits,
                           bytes |-> bytes, start |-> start])
    /\ UNCHANGED edits

\* prepareRelocationData ran and returned res.
Prepared(res) == Serialized("prepareRelocationData", res, res.buf, res.start)

\* Write ran and returned res.
Wrote(res) == Serialized("Write", res, res.bytes, 0)

\* The serialization-time relayout runs on the File.
PrepareRelocationDataCalled == Prepared(prepareRelocationData(f))

\* Write is called on the File; sort.Slice leaves the section list sorted.
WriteCalled == \E sorted \in SortedByOffset(f.Sections) : Wrote(Write(f, sorted))

NextMacho ==
    \/ MachoAddRelocationCalled
    \/ MachoRemoveRelocationsCalled
    \/ MachoAddRelocationForSymbolCalled
    \/ AddRelocationForSymbolWithDylibOrdinalCalled
    \/ SetBindKindForSymbolCalled
    \/ PrepareRelocationDataCalled
    \/ WriteCalled

SpecMacho == InitMacho /\ [][NextMacho]_vars

\* The output holds each non-empty stream of d at the offset d declares for it.
StreamsAtOffsets(d, bytes) ==
    /\ Len(d.RebaseDat) > 0
          => SubSeq(bytes, d.RebaseOffset + 1, d.RebaseOffset + d.RebaseLen) = d.RebaseDat
    /\ Len(d.BindingInfoDat) > 0
          => SubSeq(bytes, d.BindingInfoOffset + 1, d.BindingInfoOffset + d.BindingInfoLen)
                 = d.BindingInfoDat
    /\ Len(d.WeakBindingDat) > 0
          => SubSeq(bytes, d.WeakBindingOffset + 1, d.WeakBindingOffset + d.WeakBindingLen)
                 = d.WeakBindingDat
    /\ Len(d.LazyBindingDat) > 0
          => SubSeq(bytes, d.LazyBindingOffset + 1, d.LazyBindingOffset + d.LazyBindingLen)
                 = d.LazyBindingDat
    /\ Len(d.ExportInfoDat) > 0
          => SubSeq(bytes, d.ExportInfoOffset + 1, d.ExportInfoOffset + d.ExportInfoLen)
                 = d.ExportInfoDat

\* C4: serializing a parsed Mach-O file on which no edit verb was called
\* leaves the dyld info as parsed: the relayout and Write succeed and keep the
\* bytes, offsets and lengths of the five streams, and the output of Write
\* carries each stream's bytes exactly at that stream's declared offset.
C4_UneditedDyldInfoKept ==
    (edits = 0 /\ Len(out) > 0 /\ prev.DylinkInfo # Nil)
        => /\ err = ""
           /\ f.DylinkInfo = prev.DylinkInfo
           /\ call.verb = "Write" => StreamsAtOffsets(f.DylinkInfo, out[Len(out)].bytes)

\* C6: for a file with dyld info and at least one segment, a relayout that
\* follows a successful relayout succeeds too, and with no edit in between
\* it leaves the offsets, lengths and bytes of the first one.
C6_RelayoutRepeatable ==
    (/\ call.verb = "prepareRelocationData"
     /\ Len(out) = 2
     /\ out[1].kind = "prepareRelocationData" /\ out[1].err = ""
     /\ f.DylinkInfo # Nil /\ SegmentLoads(f) # {})
        => /\ err = ""
           /\ out[1].edits = edits => (f = prev /\ out[2] = out[1])

----------------------------------------------------------------------------
(* Symbol resolution of the ELF add verbs.                                 *)

\* The table a name resolves in: .symtab first, .dynsym only if the name is
\* absent there; index is the symbol's index in that table, table the section
\* index of the table.
Resolved(file, name) ==
    LET inSymtab == /\ \E i \in SecIndices(file) : Sec(file, i).Name = N_symtab
                    /\ \E k \in 1..Len(file.Symbols) : file.Symbols[k] = name
        inDynsym == /\ \E i \in SecIndices(file) : Sec(file, i).Name = N_dynsym
                    /\ \E k \in 1..Len(file.DynamicSymbols) : file.DynamicSymbols[k] = name
    IN IF inSymtab
       THEN [found |-> TRUE,
             index |-> CHOOSE k \in 1..Len(file.Symbols) :
                          /\ file.Symbols[k] = name
                          /\ \A j \in 1..(k - 1) : file.Symbols[j] # name,
             table |-> CHOOSE i \in SecIndices(file) :
                          /\ Sec(file, i).Name = N_symtab
                          /\ \A j \in SecIndices(file) : j < i => Sec(file, j).Name # N_symtab]
       ELSE IF inDynsym
       THEN [found |-> TRUE,
             index |-> CHOOSE k \in 1..Len(file.DynamicSymbols) :
                          /\ file.DynamicSymbols[k] = name
                          /\ \A j \in 1..(k - 1) : file.DynamicSymbols[j] # name,
             table |-> CHOOSE i \in SecIndices(file) :
                          /\ Sec(file, i).Name = N_dynsym
                          /\ \A j \in SecIndices(file) : j < i => Sec(file, j).Name # N_dynsym]
       ELSE [found |-> FALSE, index |-> 0, table |-> -1]

\* The entry a by-symbol or by-address add appends, for symbol index sym.
EntryFor(file, c, sym, offset, rType) ==
    LET wide == file.Class = "ELFCLASS64"
        info == IF wide THEN R_INFO(sym, rType) ELSE R_INFO32(sym, rType)
        kind == IF c.addend = <<>> THEN (IF wide THEN "Rel64" ELSE "Rel32")
                ELSE (IF wide THEN "Rela64" ELSE "Rela32")
    IN EncodeEntry(file.ByteOrder, kind,
                   IF c.addend = <<>> THEN [Off |-> offset, Info |-> info]
                   ELSE [Off |-> offset, Info |-> info, Addend |-> c.addend[1]])

\* C11: AddRelocationForSymbol resolves the name in .symtab first and only if
\* absent there in .dynsym; the appended entry carries the symbol's index in
\* the table where it was found and the relocation section's Link is the
\* section index of that table; a name in neither table makes the call fail
\* and append nothing; whenever the named section exists and the symbol is
\* found the call succeeds; AddRelocationForAddr appends an entry with symbol
\* index 0.
C11_SymbolResolution ==
    /\ (call.verb = "AddRelocationForSymbol" /\ Section(prev, call.name) # NoSection)
          => LET sym == Resolved(prev, call.symbol)
             IN IF ~sym.found
                THEN err # "" /\ f.Sections = prev.Sections
                ELSE /\ err = ""
                     /\ Sec(f, Written(f, prev, call)).Link = sym.table
                     /\ Sec(f, Written(f, prev, call)).data
                            = PayloadBefore(prev, call) \o EntryFor(prev, call, sym.index, 4, 1)
    /\ (call.verb = "AddRelocationForAddr" /\ err = "")
          => Sec(f, Written(f, prev, call)).data
                 = PayloadBefore(prev, call) \o EntryFor(prev, call, 0, 4, 8)

----------------------------------------------------------------------------
(* Attachment rules of the ELF add verbs.                                  *)

TargetVerbs == {"AddRelocations", "AddRelocationForSymbol", "AddRelocationForAddr"}

\* The target section index of a call of a verb of TargetVerbs on file.
TargetOf(file, c) ==
    IF c.verb = "AddRelocations" THEN c.target ELSE Section(file, c.name)

\* The section type for the entries of the call: SHT_RELA when they carry an addend.
KindOf(file, c) ==
    IF c.verb = "AddRelocations" THEN encodeRelocations(file.ByteOrder, c.rels).relType
    ELSE IF c.addend = <<>> THEN "SHT_REL" ELSE "SHT_RELA"

\* The section header string table holds name, NUL-terminated, at index at.
NamedAt(file, name, at) ==
    LET strtab == Sec(file, file.ShStrIndex).data
    IN /\ at + Len(name) + 1 <= Len(strtab)
       /\ SubSeq(strtab, at + 1, at + Len(name) + 1) = name \o <<NUL>>

IsSymbolTable(s) == s.Name = N_symtab \/ s.Name = N_dynsym

\* The section holding the entries has the type and the name of the rule.
HeldByNamedSection ==
    LET T == TargetOf(prev, call)
        kind == KindOf(prev, call)
        w == relocationSection(f, T, kind)
    IN /\ w # -1
       /\ Sec(f, w).Type = kind
       /\ Sec(f, w).Name = (IF kind = "SHT_RELA" THEN N_rela ELSE N_rel) \o Sec(prev, T).Name

\* Its header fields: Info, Link, Addralign, and the name index.
HeldHeaderFields ==
    LET T == TargetOf(prev, call)
        w == Sec(f, relocationSection(f, T, KindOf(prev, call)))
    IN /\ w.Info = T
       /\ w.Link \in SecIndices(f) /\ IsSymbolTable(Sec(f, w.Link))
       /\ w.Addralign = (IF f.Class = "ELFCLASS32" THEN 4 ELSE 8)
       /\ NamedAt(f, w.Name, w.Shname)

\* Exactly one section is appended when none existed; none is created, and the
\* string table does not grow, when one existed.
OneSectionCreated ==
    LET T == TargetOf(prev, call)
        was == relocationSection(prev, T, KindOf(prev, call))
    IN IF was = -1
       THEN /\ Len(f.Sections) = Len(prev.Sections) + 1
            /\ relocationSection(f, T, KindOf(prev, call)) = Len(prev.Sections)
       ELSE /\ Len(f.Sections) = Len(prev.Sections)
            /\ Sec(f, f.ShStrIndex).data = Sec(prev, prev.ShStrIndex).data

\* C12: after a successful add for target section index T the entries are held
\* by a section of type SHT_REL named ".rel" + target name when the addend is
\* absent and of type SHT_RELA named ".rela" + target name otherwise, with
\* Info = T, Link the index of .symtab or .dynsym, Addralign 4 (ELFCLASS32) or
\* 8 (ELFCLASS64); exactly one section is appended when none existed; the name
\* is NUL-terminated in the section header string table at the section's name
\* index; an add to a target that has the section creates no section and does
\* not grow the string table.
C12_AttachmentRules ==
    (call.verb \in TargetVerbs /\ err = "")
        => HeldByNamedSection /\ HeldHeaderFields /\ OneSectionCreated

\* C13: when an add verb creates a relocation section for a target section
\* that is allocated (SHF_ALLOC in the target's flags), the created relocation
\* section is allocated too.
C13_CreatedSectionAllocated ==
    (/\ call.verb \in TargetVerbs /\ err = ""
     /\ relocationSection(prev, TargetOf(prev, call), KindOf(prev, call)) = -1
     /\ IsAlloc(Sec(prev, TargetOf(prev, call))))
        => IsAlloc(Sec(f, relocationSection(f, TargetOf(prev, call), KindOf(prev, call))))

----------------------------------------------------------------------------
(* The opcode streams the regeneration of the dyld info must produce.      *)

\* The bind kind recorded for a symbol, Normal when none is recorded.
RecordedKind(file, sym) ==
    IF sym \in DOMAIN file.bindKindBySymbol THEN file.bindKindBySymbol[sym]
    ELSE "BindNormal"

\* The dylib ordinal recorded for a symbol, 0 when none is recorded.
RecordedOrdinal(file, sym) ==
    IF sym \in DOMAIN file.dylibOrdinalBySymbol THEN file.dylibOrdinalBySymbol[sym] ELSE 0

IsBindOfKind(file, kind, rel) == rel.Extern /\ RecordedKind(file, rel.Value) = kind

IsRebase(rel) == ~rel.Extern

\* Whether a relocation belongs to the stream of a kind: the rebase stream
\* takes the non-extern relocations, a bind stream the externs of its kind.
Keeps(file, kind, rel) ==
    IF kind = "Rebase" THEN IsRebase(rel) ELSE IsBindOfKind(file, kind, rel)

\* The relocations of the stream of a kind, in section-list order and
\* relocation order, each with the index of its section.
RECURSIVE RelocsWhere(_, _, _, _)
RelocsWhere(file, kind, i, k) ==
    IF i > Len(file.Sections) THEN <<>>
    ELSE IF k > Len(file.Sections[i].Relocs) THEN RelocsWhere(file, kind, i + 1, 1)
    ELSE (IF Keeps(file, kind, file.Sections[i].Relocs[k])
          THEN <<[s |-> i, rel |-> file.Sections[i].Relocs[k]]>> ELSE <<>>)
             \o RelocsWhere(file, kind, i, k + 1)

\* The load command of the segment of a section, and the segment's ordinal
\* among the segments in load-command order.
SegmentOf(file, s) == CHOOSE i \in SegmentLoads(file) : file.Loads[i].Name = s.Seg

SegOrdinal(file, s) == Cardinality({ j \in SegmentLoads(file) : j < SegmentOf(file, s) })

\* ULEB128(section.addr + rel.addr - segment.addr)
SegOffsetULEB(file, item) ==
    encodeULEB128(file.Sections[item.s].Addr + item.rel.Addr
                      - file.Loads[SegmentOf(file, file.Sections[item.s])].Addr)

\* The opcodes of the binds of one stream, cur the stream's current ordinal.
RECURSIVE BindOpcodes(_, _, _)
BindOpcodes(file, items, cur) ==
    IF items = <<>> THEN <<>>
    ELSE LET item == Head(items)
             k == RecordedOrdinal(file, item.rel.Value)
         IN (IF k # cur THEN <<16 + k>> ELSE <<>>)
                \o <<112 + SegOrdinal(file, file.Sections[item.s])>>
                \o SegOffsetULEB(file, item)
                \o <<64>> \o file.Symtab.Syms[item.rel.Value + 1].Name \o <<0>>
                \o <<144>>
                \o BindOpcodes(file, Tail(items), k)

BindsOfKind(file, kind) ==
    BindOpcodes(file, RelocsWhere(file, kind, 1, 1), 0)

\* stream is the two start opcodes, then body, then at most a DONE.
Carries(stream, body) ==
    /\ Len(stream) \in {2 + Len(body), 3 + Len(body)}
    /\ SubSeq(stream, 1, 2) = <<81, 16>>
    /\ SubSeq(stream, 3, 2 + Len(body)) = body

Regenerated ==
    /\ call.verb = "prepareRelocationData" /\ err = ""
    /\ f.DylinkInfo # Nil /\ SegmentLoads(f) # {}

\* C14: when dyld info is regenerated, every extern relocation contributes to
\* exactly one of the bind, weak-bind and lazy-bind streams, chosen by the
\* bind kind recorded for its symbol (Normal when none is recorded), with
\* SET_SEGMENT_AND_OFFSET_ULEB|seg, ULEB128(section.addr + rel.addr -
\* segment.addr), SET_SYMBOL_TRAILING_FLAGS|0, the symbol name, NUL, DO_BIND;
\* SET_DYLIB_ORDINAL_IMM|k is emitted before a bind exactly when the ordinal k
\* recorded for its symbol (0 when none) differs from the stream's current
\* ordinal; a bind of a Normal symbol with recorded ordinal 1 puts the byte
\* 0x11 into the bind stream.
C14_BindStreams ==
    Regenerated
        => /\ Carries(f.DylinkInfo.BindingInfoDat, BindsOfKind(f, "BindNormal"))
           /\ Carries(f.DylinkInfo.WeakBindingDat, BindsOfKind(f, "BindWeak"))
           /\ Carries(f.DylinkInfo.LazyBindingDat, BindsOfKind(f, "BindLazy"))
           /\ (\E i \in 1..Len(f.Sections) : \E k \in 1..Len(f.Sections[i].Relocs) :
                  /\ IsBindOfKind(f, "BindNormal", f.Sections[i].Relocs[k])
                  /\ RecordedOrdinal(f, f.Sections[i].Relocs[k].Value) = 1)
                 => \E j \in 1..Len(f.DylinkInfo.BindingInfoDat) :
                        f.DylinkInfo.BindingInfoDat[j] = 17

\* A regeneration with two binds in the bind stream, the first with ordinal 1
\* and the second with ordinal 0.
C14_Witness ==
    /\ Regenerated
    /\ Len(f.Sections[1].Relocs) = 2
    /\ IsBindOfKind(f, "BindNormal", f.Sections[1].Relocs[1])
    /\ IsBindOfKind(f, "BindNormal", f.Sections[1].Relocs[2])
    /\ RecordedOrdinal(f, f.Sections[1].Relocs[1].Value) = 1
    /\ RecordedOrdinal(f, f.Sections[1].Relocs[2].Value) = 0

----------------------------------------------------------------------------
(* The rebase stream the regeneration of the dyld info must produce.       *)

\* The triples of the rebases of the stream.
RECURSIVE RebaseOpcodes(_, _)
RebaseOpcodes(file, items) ==
    IF items = <<>> THEN <<>>
    ELSE <<32 + SegOrdinal(file, file.Sections[Head(items).s])>>
             \o SegOffsetULEB(file, Head(items))
             \o <<81>>
             \o RebaseOpcodes(file, Tail(items))

RebaseStream(file) == <<17>> \o RebaseOpcodes(file, RelocsWhere(file, "Rebase", 1, 1)) \o <<0>>

\* Some relocation of the file lies below the address of its section's segment.
Underflows(file) ==
    \E i \in 1..Len(file.Sections) : \E k \in 1..Len(file.Sections[i].Relocs) :
        file.Sections[i].Addr + file.Sections[i].Relocs[k].Addr
            < file.Loads[SegmentOf(file, file.Sections[i])].Addr

\* C15: when dyld info is regenerated for a file that has dyld info, the
\* rebase stream is SET_TYPE_IMM|POINTER, then for every non-extern relocation
\* in section-list order and relocation order the triple
\* SET_SEGMENT_AND_OFFSET_ULEB|seg, ULEB128(section.addr + rel.addr -
\* segment.addr), DO_REBASE_IMM_TIMES|1, then DONE, so that RebaseLen > 0 once
\* the file has a non-extern relocation; the regeneration fails when
\* section.addr + rel.addr of a relocation is below the segment's address.
C15_RebaseStream ==
    /\ Regenerated
          => /\ ~Underflows(f)
             /\ f.DylinkInfo.RebaseDat = RebaseStream(f)
             /\ f.DylinkInfo.RebaseLen = Len(RebaseStream(f))
             /\ RelocsWhere(f, "Rebase", 1, 1) # <<>> => f.DylinkInfo.RebaseLen > 0
    /\ (/\ call.verb = "prepareRelocationData"
        /\ prev.DylinkInfo # Nil /\ SegmentLoads(prev) # {}
        /\ Underflows(prev))
          => err # ""

\* A regeneration of a file with two non-extern relocations at offset 560 of
\* the first segment.
C15_Witness ==
    /\ Regenerated
    /\ Len(RelocsWhere(f, "Rebase", 1, 1)) = 2
    /\ f.DylinkInfo.RebaseDat = <<17, 32, 176, 4, 81, 32, 176, 4, 81, 0>>

\* The relayout of a file with a relocation below its segment fails.
C15_UnderflowReached ==
    /\ call.verb = "prepareRelocationData"
    /\ prev.DylinkInfo # Nil /\ Underflows(prev)
    /\ err = "relocation offset underflows segment"

----------------------------------------------------------------------------
(* The dylib ordinal of AddRelocationForSymbolWithDylibOrdinal.            *)

\* C16: AddRelocationForSymbolWithDylibOrdinal accepts only ordinals 0..15:
\* called with an ordinal above 15 it returns an error, appends no relocation
\* to the named section and leaves the dylib-ordinal map as before; it also
\* changes nothing when the symbol or the section is not found.
C16_OrdinalRangeAllOrNothing ==
    call.verb = "AddRelocationForSymbolWithDylibOrdinal"
        => /\ call.ordinal > 15
                 => /\ err # ""
                    /\ f.Sections = prev.Sections
                    /\ f.dylibOrdinalBySymbol = prev.dylibOrdinalBySymbol
           /\ (MachoSection(prev, call.section) = 0 \/ SymIndex(prev, call.symbol) < 0)
                 => err # "" /\ f = prev

----------------------------------------------------------------------------
(* The layout of the relocations at serialization time.                    *)

\* The ends of the file regions other than the relocations.
RegionEnds(file) ==
    LET d == file.DylinkInfo
    IN { file.Sections[i].Offset + file.Sections[i].Size : i \in 1..Len(file.Sections) }
       \cup (IF d # Nil
             THEN {d.RebaseOffset + d.RebaseLen, d.BindingInfoOffset + d.BindingInfoLen,
                   d.WeakBindingOffset + d.WeakBindingLen,
                   d.LazyBindingOffset + d.LazyBindingLen,
                   d.ExportInfoOffset + d.ExportInfoLen}
             ELSE {})
       \cup (IF file.FuncStarts # Nil
             THEN {file.FuncStarts.Offset + file.FuncStarts.Len} ELSE {})
       \cup (IF file.DataInCode # Nil
             THEN {file.DataInCode.Offset + file.DataInCode.Len} ELSE {})
       \cup (IF file.Symtab # Nil
             THEN {file.Symtab.Symoff + Len(file.Symtab.RawSymtab),
                   file.Symtab.Stroff + Len(file.Symtab.RawStringtab)}
             ELSE {})
       \cup (IF file.Dysymtab # Nil
             THEN {file.Dysymtab.Indirectsymoff + Len(file.Dysymtab.RawDysymtab)} ELSE {})
       \cup (IF file.SigBlock # Nil
             THEN {file.SigBlock.Offset + file.SigBlock.Len} ELSE {})

\* The fields of one section after the layout.
RelocFieldsLaidOut(file, s) ==
    /\ s.Nreloc = Len(s.Relocs)
    /\ IF s.Relocs = <<>> THEN s.Reloff = 0
       ELSE /\ s.Reloff > 0 /\ s.Reloff % 4 = 0
            /\ \A e \in RegionEnds(file) : s.Reloff >= e

\* The relocation blocks of two sections do not overlap.
BlocksDisjoint(s, u) ==
    (s.Nreloc > 0 /\ u.Nreloc > 0)
        => (s.Reloff + 8 * s.Nreloc <= u.Reloff \/ u.Reloff + 8 * u.Nreloc <= s.Reloff)

\* The buffer holds the encoded relocations of the section at Reloff - start.
BlockInBuffer(file, s, buf, start) ==
    s.Relocs # <<>>
        => /\ s.Reloff >= start
           /\ SubSeq(buf, s.Reloff - start + 1, s.Reloff - start + 8 * s.Nreloc)
                  = MachoEncodeRelocations(file.ByteOrder, s.Relocs)

LaidOut == call.verb = "prepareRelocationData" /\ err = ""

\* C17: after the serialization-time relocation layout, for every section
\* Nreloc is the number of relocations in its list, Reloff is 0 when the list
\* is empty and otherwise a positive multiple of 4 at or after the end of every
\* other file region; the 8*Nreloc-byte blocks of different sections are
\* disjoint, and the returned buffer holds each section's encoded relocations
\* at Reloff minus the returned start offset.  The layout keeps the lists, and
\* AddRelocation appends exactly one relocation to the list of its section.
C17_RelocationLayout ==
    /\ LaidOut
          => /\ \A i \in 1..Len(f.Sections) :
                   /\ RelocFieldsLaidOut(f, f.Sections[i])
                   /\ f.Sections[i].Relocs = prev.Sections[i].Relocs
                   /\ BlockInBuffer(f, f.Sections[i], out[Len(out)].bytes, out[Len(out)].start)
                   /\ \A j \in 1..Len(f.Sections) :
                         i # j => BlocksDisjoint(f.Sections[i], f.Sections[j])
    /\ (call.verb = "AddRelocation" /\ err = "")
          => f.Sections[MachoSection(prev, call.section)].Relocs
                 = Append(prev.Sections[MachoSection(prev, call.section)].Relocs, PointerReloc)

\* A layout of a file with relocations in two sections.
C17_Witness ==
    /\ LaidOut
    /\ f.Sections[1].Nreloc > 0 /\ f.Sections[2].Nreloc > 0
    /\ f.Sections[1].Reloff + 8 * f.Sections[1].Nreloc = f.Sections[2].Reloff

----------------------------------------------------------------------------
(* PE: the File as the relocation edit verbs and the relayout see it.      *)
(* Sections are numbered from 1; 0 is a nil *Section.  A nil               *)
(* BaseRelocationTable and a missing optional header are Nil; a table that *)
(* is not nil is [entries |-> its blocks].  Section and file               *)
(* characteristics are sets of flag names.                                 *)

MaxUint16 == 65535

\* File.Section(name): the first section of that name, 0 when there is none.
PESection(file, name) ==
    LET hits == { i \in 1..Len(file.Sections) : file.Sections[i].Name = name }
    IN IF hits = {} THEN 0 ELSE Min(hits)

\* The table the verbs append to: a nil table is replaced by an empty one.
BaseTable(file) ==
    IF file.BaseRelocationTable = Nil THEN <<>> ELSE file.BaseRelocationTable.entries

AddBaseRelocation(file, block) ==
    [f |-> [file EXCEPT !.BaseRelocationTable = [entries |-> Append(BaseTable(file), block)]],
     err |-> ""]

RemoveBaseRelocations(file) ==
    [f |-> [file EXCEPT !.BaseRelocationTable = [entries |-> <<>>]], err |-> ""]

AddBaseReloc(file, rva, typ) ==
    LET page == rva - (rva % 4096)
        item == [Type |-> typ, Offset |-> rva % 4096]
        table == BaseTable(file)
        hits == { i \in 1..Len(table) : table[i].VirtualAddress = page }
    IN IF hits # {}
       THEN [f |-> [file EXCEPT !.BaseRelocationTable =
                       [entries |-> [table EXCEPT ![Min(hits)].BlockItems = Append(@, item)]]],
             err |-> ""]
       ELSE [f |-> [file EXCEPT !.BaseRelocationTable =
                       [entries |-> Append(table, [VirtualAddress |-> page, SizeOfBlock |-> 0,
                                                   BlockItems |-> <<item>>])]],
             err |-> ""]

AddSectionRelocation(file, sectionName, rel) ==
    LET si == PESection(file, sectionName)
    IN IF si = 0 THEN [f |-> file, err |-> "section not found"]
       ELSE [f |-> [file EXCEPT !.Sections[si].Relocs = Append(@, rel)], err |-> ""]

ReplaceSectionRelocations(file, sectionName, rels) ==
    LET si == PESection(file, sectionName)
    IN IF si = 0 THEN [f |-> file, err |-> "section not found"]
       ELSE [f |-> [file EXCEPT !.Sections[si].Relocs = rels], err |-> ""]

RemoveSectionRelocations(file, sectionName) ==
    LET si == PESection(file, sectionName)
    IN IF si = 0 THEN [f |-> file, err |-> "section not found"]
       ELSE [f |-> [file EXCEPT !.Sections[si].Relocs = <<>>], err |-> ""]

----------------------------------------------------------------------------
(* PE: the relayout of the base relocations and the COFF relocations.      *)
(* Offsets, addresses and sizes are uint32 in the code; the files here     *)
(* keep every sum far below 2^32, so no sum wraps.                         *)

align32(value, align) ==
    IF align = 0 THEN value
    ELSE IF value % align = 0 THEN value
    ELSE value + (align - (value % align))

\* maxSectionEnds: skip is the index of the section left out, 0 for nil.
maxSectionEnds(file, skip, sectionAlign) ==
    LET others == { i \in 1..Len(file.Sections) : i # skip }
        virtualSize(s) == IF s.VirtualSize = 0 THEN s.Size ELSE s.VirtualSize
    IN [raw |-> Max({0} \cup { file.Sections[i].Offset + file.Sections[i].Size :
                                 i \in others }),
        virtual |-> Max({0} \cup { file.Sections[i].VirtualAddress
                                      + align32(virtualSize(file.Sections[i]), sectionAlign) :
                                    i \in others })]

\* binary.Write of a RelocationBlock.  encoding/binary writes fixed-size
\* values only; RelocationBlock has the slice field BlockItems, so Write
\* returns an error and writes nothing, and the caller drops the error.
WriteRelocationBlock(block) == <<>>

\* binary.Write of the uint16 of one block item.
WriteBlockItem(item) == LittleEndian(((item.Type * 4096) % 65536) + (item.Offset % 4096), 2)

RECURSIVE WriteBlockItems(_)
WriteBlockItems(items) ==
    IF items = <<>> THEN <<>> ELSE WriteBlockItem(Head(items)) \o WriteBlockItems(Tail(items))

\* One turn of the loop of buildBaseRelocationData.
WriteBaseRelocationEntry(entry) ==
    LET items == IF Len(entry.BlockItems) % 2 # 0
                 THEN Append(entry.BlockItems, [Type |-> 0, Offset |-> 0])
                 ELSE entry.BlockItems
        block == [VirtualAddress |-> entry.VirtualAddress,
                  SizeOfBlock |-> 8 + Len(items) * 2]
    IN WriteRelocationBlock(block) \o WriteBlockItems(items)

RECURSIVE WriteBaseRelocationEntries(_)
WriteBaseRelocationEntries(table) ==
    IF table = <<>> THEN <<>>
    ELSE WriteBaseRelocationEntry(Head(table)) \o WriteBaseRelocationEntries(Tail(table))

buildBaseRelocationData(file) ==
    IF file.BaseRelocationTable = Nil THEN <<>>
    ELSE WriteBaseRelocationEntries(file.BaseRelocationTable.entries)

\* binary.Write of a Reloc: VirtualAddress, SymbolTableIndex, Type.
WriteReloc(rel) ==
    LittleEndian(rel.VirtualAddress, 4) \o LittleEndian(rel.SymbolTableIndex, 4)
        \o LittleEndian(rel.Type, 2)

RECURSIVE WriteRelocs(_)
WriteRelocs(rels) == IF rels = <<>> THEN <<>> ELSE WriteReloc(Head(rels)) \o WriteRelocs(Tail(rels))

\* The loop of buildCOFFRelocationData over the sections, from section i on;
\* an error leaves the sections before i as the loop changed them.
RECURSIVE PlaceCOFFRelocs(_, _, _, _)
PlaceCOFFRelocs(secs, i, start, st) ==
    IF i > Len(secs) THEN st
    ELSE LET s == secs[i]
             offset == align32(st.offset, 4)
             pad == offset - start - Len(st.buf)
         IN IF Len(s.Relocs) = 0
            THEN PlaceCOFFRelocs(secs, i + 1, start,
                     [st EXCEPT !.secs[i].PointerToRelocations = 0,
                                !.secs[i].NumberOfRelocations = 0])
            ELSE IF Len(s.Relocs) > MaxUint16
            THEN [st EXCEPT !.err = "too many COFF relocations for section"]
            ELSE PlaceCOFFRelocs(secs, i + 1, start,
                     [offset |-> offset + Len(s.Relocs) * 10,
                      buf |-> st.buf \o Zeros(pad) \o WriteRelocs(s.Relocs),
                      secs |-> [st.secs EXCEPT ![i].PointerToRelocations = offset,
                                               ![i].NumberOfRelocations = Len(s.Relocs)],
                      err |-> ""])

buildCOFFRelocationData(file, start, fileAlign) ==
    LET from == IF start = 0 THEN fileAlign ELSE start
        placed == PlaceCOFFRelocs(file.Sections, 1, from,
                                  [offset |-> align32(from, fileAlign), buf |-> <<>>,
                                   secs |-> file.Sections, err |-> ""])
    IN IF placed.err # ""
       THEN [f |-> [file EXCEPT !.Sections = placed.secs], buf |-> <<>>, start |-> 0,
             err |-> placed.err]
       ELSE [f |-> [file EXCEPT !.Sections = placed.secs], buf |-> placed.buf,
             start |-> from, err |-> ""]

headersSize(file) ==
    file.DosHeader.AddressOfNewExeHeader + 4 + 20 + file.FileHeader.SizeOfOptionalHeader
        + Len(file.Sections) * 40

\* The section prepareRelocationLayout creates when the file has no .reloc.
NewRelocSectionCode ==
    [Name |-> ".reloc", VirtualSize |-> 0, VirtualAddress |-> 0, Size |-> 0, Offset |-> 0,
     PointerToRelocations |-> 0, NumberOfRelocations |-> 0,
     Characteristics |-> {"IMAGE_SCN_CNT_CODE", "IMAGE_SCN_MEM_READ"},
     Relocs |-> <<>>, data |-> <<>>]

NewRelocSection ==
    [Name |-> ".reloc", VirtualSize |-> 0, VirtualAddress |-> 0, Size |-> 0, Offset |-> 0,
     PointerToRelocations |-> 0, NumberOfRelocations |-> 0,
     Characteristics |-> {"IMAGE_SCN_CNT_INITIALIZED_DATA", "IMAGE_SCN_MEM_READ",
                          "IMAGE_SCN_MEM_DISCARDABLE"},
     Relocs |-> <<>>, data |-> <<>>]

\* Section.Replace(reader, length): the section's data becomes the reader's
\* bytes.
PEReplace(s, bytes) == [s EXCEPT !.data = bytes]

\* The branch of prepareRelocationLayout for non-empty base relocation data:
\* the .reloc section is created if missing, placed after the other sections
\* and filled, and the data directory and the file header follow it.
PlaceBaseRelocations(file, relocData, ends, sectionAlign, fileAlign) ==
    LET found == PESection(file, ".reloc")
        withSection ==
            IF found # 0 THEN file
            ELSE [file EXCEPT !.Sections = Append(@, NewRelocSection),
                              !.FileHeader.NumberOfSections = (Len(file.Sections) + 1) % 65536]
        ri == IF found # 0 THEN found ELSE Len(file.Sections) + 1
        size == align32(Len(relocData), fileAlign)
        placed == PEReplace([withSection.Sections[ri] EXCEPT
                                !.VirtualSize = Len(relocData),
                                !.Size = size,
                                !.PointerToRelocations = 0,
                                !.NumberOfRelocations = 0,
                                !.Offset = align32(ends.raw, fileAlign),
                                !.VirtualAddress = align32(ends.virtual, sectionAlign)],
                            [i \in 1..size |-> IF i <= Len(relocData) THEN relocData[i] ELSE 0])
    IN [f |-> [withSection EXCEPT
                 !.Sections[ri] = placed,
                 !.OptionalHeader.DataDirectory.IMAGE_DIRECTORY_ENTRY_BASERELOC =
                     [VirtualAddress |-> placed.VirtualAddress, Size |-> Len(relocData)],
                 !.FileHeader.Characteristics = @ \ {"IMAGE_FILE_RELOCS_STRIPPED"}],
        raw |-> placed.Offset + placed.Size,
        virtual |-> placed.VirtualAddress + align32(placed.VirtualSize, sectionAlign)]

\* prepareRelocationLayout from the base relocation data on.
LayOutBaseRelocations(file, relocData, ends, sectionAlign, fileAlign) ==
    IF Len(relocData) > 0
    THEN PlaceBaseRelocations(file, relocData, ends, sectionAlign, fileAlign)
    ELSE [f |-> [file EXCEPT !.OptionalHeader.DataDirectory.IMAGE_DIRECTORY_ENTRY_BASERELOC =
                                 [VirtualAddress |-> 0, Size |-> 0]],
          raw |-> ends.raw, virtual |-> ends.virtual]

\* prepareRelocationLayout after the base relocations are laid out: based is
\* what that step leaves.
LayOutCOFFRelocations(based, sectionAlign, fileAlign) ==
    LET sized == [based.f EXCEPT
                     !.OptionalHeader.SizeOfImage = align32(based.virtual, sectionAlign),
                     !.OptionalHeader.SizeOfHeaders = align32(headersSize(based.f), fileAlign)]
        coff == buildCOFFRelocationData(sized, based.raw, fileAlign)
    IN IF coff.err # "" THEN coff
       ELSE [coff EXCEPT !.f.FileHeader.PointerToSymbolTable =
                IF Len(coff.f.COFFSymbols) > 0
                THEN align32(coff.start + Len(coff.buf), 4) ELSE 0]

prepareRelocationLayout(file) ==
    IF file.OptionalHeader = Nil
    THEN [f |-> file, buf |-> <<>>, start |-> 0, err |-> "optional header not available"]
    ELSE LayOutCOFFRelocations(
             LayOutBaseRelocations(file, buildBaseRelocationData(file),
                                   maxSectionEnds(file, PESection(file, ".reloc"),
                                                  file.OptionalHeader.SectionAlignment),
                                   file.OptionalHeader.SectionAlignment,
                                   file.OptionalHeader.FileAlignment),
             file.OptionalHeader.SectionAlignment, file.OptionalHeader.FileAlignment)

----------------------------------------------------------------------------
(* PE: reading the base relocation table back.  A reader r is the bytes    *)
(* r.bytes found from position r.base on.                                  *)

\* The n bytes of r at pos, <<>> when r ends before them.
ReadAt(r, pos, n) ==
    IF pos < r.base \/ pos - r.base + n > Len(r.bytes) THEN <<>>
    ELSE SubSeq(r.bytes, pos - r.base + 1, pos - r.base + n)

FromLittleEndian(bytes) ==
    IF Len(bytes) = 2 THEN bytes[1] + 256 * bytes[2]
    ELSE bytes[1] + 256 * bytes[2] + 65536 * bytes[3] + 16777216 * bytes[4]

\* binary.Read into a RelocationBlock.  encoding/binary reads fixed-size
\* values only; RelocationBlock has the slice field BlockItems, so Read
\* returns an error without reading and the block keeps its zero value.
ReadRelocationBlock(r, pos) ==
    [VirtualAddress |-> 0, SizeOfBlock |-> 0, err |-> "binary.Read: invalid type"]

\* The loop over the items of one block: i items are read, items holds them.
RECURSIVE ReadBlockItems(_, _, _, _, _)
ReadBlockItems(r, pos, i, numBlocks, items) ==
    IF i >= numBlocks THEN [items |-> items, err |-> ""]
    ELSE LET buf == ReadAt(r, pos, 2)
         IN IF buf = <<>> THEN [items |-> items, err |-> "fail to read relocation block item"]
            ELSE ReadBlockItems(r, pos + 2, i + 1, numBlocks,
                     Append(items, [Type |-> FromLittleEndian(buf) \div 4096,
                                    Offset |-> FromLittleEndian(buf) % 4096]))

\* The loop of readBaseRelocationTable over the blocks.
RECURSIVE ReadBlocks(_, _, _, _, _)
ReadBlocks(r, pos, bytesRead, size, blocks) ==
    IF bytesRead >= size THEN [table |-> [entries |-> blocks], err |-> ""]
    ELSE LET reloBlock == ReadRelocationBlock(r, pos)
             numBlocks == IF reloBlock.SizeOfBlock >= 8
                          THEN (reloBlock.SizeOfBlock - 8) \div 8
                          ELSE 536870911
             read == ReadBlockItems(r, pos + 8, 0, numBlocks, <<>>)
         IN IF reloBlock.err # "" THEN [table |-> Nil, err |-> "fail to read relocation block"]
            ELSE IF read.err # "" THEN [table |-> Nil, err |-> read.err]
            ELSE ReadBlocks(r, pos + 8 + 2 * numBlocks, bytesRead + 8 + 2 * numBlocks, size,
                     Append(blocks, [VirtualAddress |-> reloBlock.VirtualAddress,
                                     SizeOfBlock |-> reloBlock.SizeOfBlock,
                                     BlockItems |-> read.items]))

readBaseRelocationTable(file, r) ==
    LET dd == file.OptionalHeader.DataDirectory.IMAGE_DIRECTORY_ENTRY_BASERELOC
    IN ReadBlocks(r, dd.VirtualAddress, 0, dd.Size, <<>>)

----------------------------------------------------------------------------
(* PE: the files the verbs are applied to.                                 *)

PESec(name, vsize, va, size, offset, ptr, relocs, chars) ==
    [Name |-> name, VirtualSize |-> vsize, VirtualAddress |-> va, Size |-> size,
     Offset |-> offset, PointerToRelocations |-> ptr, NumberOfRelocations |-> Len(relocs),
     Characteristics |-> chars, Relocs |-> relocs, data |-> <<>>]

NoDirectory == [IMAGE_DIRECTORY_ENTRY_BASERELOC |-> [VirtualAddress |-> 0, Size |-> 0]]

CodeSection == {"IMAGE_SCN_CNT_CODE", "IMAGE_SCN_MEM_EXECUTE", "IMAGE_SCN_MEM_READ"}

DataSection == {"IMAGE_SCN_CNT_INITIALIZED_DATA", "IMAGE_SCN_MEM_READ", "IMAGE_SCN_MEM_WRITE"}

COFFReloc == [VirtualAddress |-> 0, SymbolTableIndex |-> 0, Type |-> 0]

\* An executable image without base relocations, with COFF symbols.
PEExec ==
    [DosHeader |-> [AddressOfNewExeHeader |-> 128],
     FileHeader |-> [NumberOfSections |-> 2, SizeOfOptionalHeader |-> 224,
                     PointerToSymbolTable |-> 1536,
                     Characteristics |-> {"IMAGE_FILE_RELOCS_STRIPPED",
                                          "IMAGE_FILE_EXECUTABLE_IMAGE"}],
     OptionalHeader |-> [SectionAlignment |-> 4096, FileAlignment |-> 512,
                         DataDirectory |-> NoDirectory, SizeOfImage |-> 12288,
                         SizeOfHeaders |-> 512],
     Sections |-> << PESec(".text", 100, 4096, 512, 512, 0, <<>>, CodeSection),
                     PESec(".data", 40, 8192, 512, 1024, 0, <<>>, DataSection) >>,
     BaseRelocationTable |-> [entries |-> <<>>],
     COFFSymbols |-> <<"_main">>]

\* An image with small alignments whose last section ends off a 4-byte
\* boundary, without COFF symbols and with a nil base relocation table.
PETiny ==
    [PEExec EXCEPT !.OptionalHeader.SectionAlignment = 16,
                   !.OptionalHeader.FileAlignment = 2,
                   !.OptionalHeader.SizeOfImage = 8240,
                   !.FileHeader.PointerToSymbolTable = 0,
                   !.FileHeader.Characteristics = {"IMAGE_FILE_EXECUTABLE_IMAGE"},
                   !.Sections[2].Size = 38,
                   !.Sections[2].Offset = 1024,
                   !.BaseRelocationTable = Nil,
                   !.COFFSymbols = <<>>]

\* An object file: no optional header, one COFF relocation in .text.
PEObj ==
    [DosHeader |-> [AddressOfNewExeHeader |-> 0],
     FileHeader |-> [NumberOfSections |-> 2, SizeOfOptionalHeader |-> 0,
                     PointerToSymbolTable |-> 132, Characteristics |-> {}],
     OptionalHeader |-> Nil,
     Sections |-> << PESec(".text", 0, 0, 16, 100, 116, <<COFFReloc>>, CodeSection),
                     PESec(".data", 0, 0, 4, 128, 0, <<>>, DataSection) >>,
     BaseRelocationTable |-> Nil,
     COFFSymbols |-> <<"_main">>]

\* The executable after a base relocation was added to it and laid out: it
\* has a .reloc section, which is its last section.
PERelocated == prepareRelocationLayout(AddBaseReloc(PEExec, 4112, 3).f).f

\* The executable with a longer DOS stub: its headers, 512 bytes with the two
\* section headers, fill the space before the raw data of .text exactly.
PEFull == [PEExec EXCEPT !.DosHeader.AddressOfNewExeHeader = 184]

\* The executable with an uninitialized-data section: .bss has no raw data
\* and declares PointerToRawData 0.
PEBss ==
    [PEExec EXCEPT !.FileHeader.NumberOfSections = 3,
                   !.OptionalHeader.SizeOfImage = 16384,
                   !.Sections = Append(@, PESec(".bss", 64, 12288, 0, 0, 0, <<>>,
                                                {"IMAGE_SCN_CNT_UNINITIALIZED_DATA",
                                                 "IMAGE_SCN_MEM_READ",
                                                 "IMAGE_SCN_MEM_WRITE"}))]

PEFiles == {PEExec, PETiny, PEObj, PERelocated, PEFull, PEBss}

----------------------------------------------------------------------------
(* The specification of the PE edit verbs, the relayout and the read-back. *)

MaxPEEdits == 2

----------------------------------------------------------------------------
(* PE: Bytes().  The output is modelled as the list of the chunks written, *)
(* each with its kind and length; w.n is uint32(bytesWritten).  A padding  *)
(* chunk whose length was computed by PointerToRawData - uint32(bytesWritten) *)
(* with PointerToRawData the smaller one has wrap set: its length is       *)
(* 2^32 + len, len being the negative difference.                          *)

\* The raw data Data() reads for section s: SizeOfRawData bytes.
Data(s) == [kind |-> s.Name, len |-> s.Size, wrap |-> FALSE]

\* The bytes written before the section data: DOS header and stub padded to
\* AddressOfNewExeHeader, signature, file header, optional header and the
\* section headers.
PEHeaderBytes(file) ==
    file.DosHeader.AddressOfNewExeHeader + 4 + 20 + file.FileHeader.SizeOfOptionalHeader
        + 40 * Len(file.Sections)

\* The loop over the section headers that writes the section data, from
\* section i on.
RECURSIVE WriteSectionData(_, _, _)
WriteSectionData(secs, i, w) ==
    IF i > Len(secs) THEN w
    ELSE LET s == secs[i]
             padding == [kind |-> "padding", len |-> s.Offset - w.n,
                         wrap |-> s.Offset < w.n]
         IN IF s.Offset # w.n
            THEN WriteSectionData(secs, i + 1,
                     [chunks |-> w.chunks \o <<padding, Data(s)>>,
                      n |-> s.Offset + Data(s).len])
            ELSE WriteSectionData(secs, i + 1,
                     [chunks |-> Append(w.chunks, Data(s)), n |-> w.n + Data(s).len])

PEBytes(file) ==
    [f |-> file,
     bytes |-> WriteSectionData(file.Sections, 1,
                  [chunks |-> <<[kind |-> "headers", len |-> PEHeaderBytes(file),
                                 wrap |-> FALSE]>>,
                   n |-> PEHeaderBytes(file)]).chunks,
     err |-> ""]

InitPE ==
    /\ f \in PEFiles
    /\ prev = f
    /\ call = [verb |-> ""]
    /\ err = ""
    /\ clean = TRUE
    /\ edits = 0
    /\ out = <<>>

PECalled(c, res) ==
    /\ edits < MaxPEEdits
    /\ f' = res.f
    /\ prev' = f
    /\ call' = c
    /\ err' = res.err
    /\ clean' = (clean /\ res.err = "")
    /\ edits' = edits + 1
    /\ out' = out

\* A base relocation of type IMAGE_REL_BASED_HIGHLOW in the page of .text.
AddBaseRelocCalled ==
    PECalled([verb |-> "AddBaseReloc", rva |-> 4112], AddBaseReloc(f, 4112, 3))

\* A block of one item for the page of .data.
DataBlock ==
    [VirtualAddress |-> 8192, SizeOfBlock |-> 0,
     BlockItems |-> <<[Type |-> 3, Offset |-> 4]>>]

AddBaseRelocationCalled ==
    PECalled([verb |-> "AddBaseRelocation"], AddBaseRelocation(f, DataBlock))

RemoveBaseRelocationsCalled ==
    PECalled([verb |-> "RemoveBaseRelocations"], RemoveBaseRelocations(f))

AddSectionRelocationCalled ==
    \E sectionName \in {".text", ".data", ".none"} :
        PECalled([verb |-> "AddSectionRelocation", section |-> sectionName],
                 AddSectionRelocation(f, sectionName, COFFReloc))

\* One relocation more than a section header can count.
TooManyRelocs == [i \in 1..(MaxUint16 + 1) |-> COFFReloc]

ReplaceSectionRelocationsCalled ==
    PECalled([verb |-> "ReplaceSectionRelocations", section |-> ".text"],
             ReplaceSectionRelocations(f, ".text", TooManyRelocs))

RemoveSectionRelocationsCalled ==
    PECalled([verb |-> "RemoveSectionRelocations", section |-> ".text"],
             RemoveSectionRelocations(f, ".text"))

\* The relayout runs on the File.
PrepareRelocationLayoutCalled ==
    Serialized("prepareRelocationLayout", prepareRelocationLayout(f),
               prepareRelocationLayout(f).buf, prepareRelocationLayout(f).start)

\* The reader the table is read back from: it holds the data of the .reloc
\* section at the section's virtual address.
RelocReader(file) ==
    IF PESection(file, ".reloc") = 0 THEN [base |-> 0, bytes |-> <<>>]
    ELSE [base |-> file.Sections[PESection(file, ".reloc")].VirtualAddress,
          bytes |-> file.Sections[PESection(file, ".reloc")].data]

\* The base relocation table of the File is read back from its .reloc data.
ReadBaseRelocationTableCalled ==
    /\ f.OptionalHeader # Nil
    /\ Len(out) < MaxCalls
    /\ LET res == readBaseRelocationTable(f, RelocReader(f))
       IN /\ call' = [verb |-> "readBaseRelocationTable"]
          /\ err' = res.err
          /\ clean' = (clean /\ res.err = "")
          /\ out' = Append(out, [kind |-> "readBaseRelocationTable", err |-> res.err,
                                 edits |-> edits, table |-> res.table])
    /\ prev' = f
    /\ UNCHANGED <<f, edits>>

\* Bytes() is called on an image; it leaves the File as it is.
PEBytesCalled ==
    /\ f.OptionalHeader # Nil
    /\ Serialized("Bytes", PEBytes(f), PEBytes(f).bytes, 0)

NextPE ==
    \/ AddBaseRelocCalled
    \/ AddBaseRelocationCalled
    \/ RemoveBaseRelocationsCalled
    \/ AddSectionRelocationCalled
    \/ ReplaceSectionRelocationsCalled
    \/ RemoveSectionRelocationsCalled
    \/ PrepareRelocationLayoutCalled
    \/ ReadBaseRelocationTableCalled
    \/ PEBytesCalled

SpecPE == InitPE /\ [][NextPE]_vars

----------------------------------------------------------------------------
(* The base relocation directory after the relayout.                       *)

PELaidOut == call.verb = "prepareRelocationLayout" /\ err = ""

BaseRelocDirectory(file) == file.OptionalHeader.DataDirectory.IMAGE_DIRECTORY_ENTRY_BASERELOC

\* C18: after the relayout the data directory entry
\* IMAGE_DIRECTORY_ENTRY_BASERELOC is {0, 0} if and only if the base
\* relocation table encodes to no bytes; otherwise its VirtualAddress is the
\* virtual address of the section named .reloc and its Size the length of the
\* encoded base relocation data, the .reloc section has the characteristics
\* CNT_INITIALIZED_DATA | MEM_READ | MEM_DISCARDABLE when the relayout created
\* it, NumberOfSections is the length of the section list and
\* IMAGE_FILE_RELOCS_STRIPPED is clear in the file header.
C18_BaseRelocDirectory ==
    PELaidOut
        => LET relocData == buildBaseRelocationData(prev)
               dd == BaseRelocDirectory(f)
               ri == PESection(f, ".reloc")
           IN /\ (dd = [VirtualAddress |-> 0, Size |-> 0]) <=> (Len(relocData) = 0)
              /\ Len(relocData) > 0
                    => /\ ri # 0
                       /\ dd.VirtualAddress = f.Sections[ri].VirtualAddress
                       /\ dd.Size = Len(relocData)
                       /\ PESection(prev, ".reloc") = 0
                             => f.Sections[ri].Characteristics
                                    = {"IMAGE_SCN_CNT_INITIALIZED_DATA", "IMAGE_SCN_MEM_READ",
                                       "IMAGE_SCN_MEM_DISCARDABLE"}
                       /\ f.FileHeader.NumberOfSections = Len(f.Sections)
                       /\ "IMAGE_FILE_RELOCS_STRIPPED" \notin f.FileHeader.Characteristics

\* A relayout that created the .reloc section of a file whose header said
\* that the relocations were stripped.
C18_Witness ==
    /\ PELaidOut
    /\ PESection(prev, ".reloc") = 0 /\ PESection(f, ".reloc") = 3
    /\ "IMAGE_FILE_RELOCS_STRIPPED" \in prev.FileHeader.Characteristics
    /\ BaseRelocDirectory(f).Size > 0

----------------------------------------------------------------------------
(* The encoding of the base relocation table and its read-back.            *)

\* A block's items, an odd count padded with one IMAGE_REL_BASED_ABSOLUTE entry.
PaddedItems(items) ==
    IF Len(items) % 2 = 1 THEN Append(items, [Type |-> 0, Offset |-> 0]) ELSE items

RECURSIVE PackedItems(_)
PackedItems(items) ==
    IF items = <<>> THEN <<>>
    ELSE LittleEndian(Head(items).Type * 4096 + (Head(items).Offset % 4096), 2)
             \o PackedItems(Tail(items))

\* {u32 page RVA; u32 SizeOfBlock; u16 entries} of every block in turn.
RECURSIVE BlocksOnWire(_)
BlocksOnWire(table) ==
    IF table = <<>> THEN <<>>
    ELSE LittleEndian(Head(table).VirtualAddress, 4)
             \o LittleEndian(8 + 2 * Len(PaddedItems(Head(table).BlockItems)), 4)
             \o PackedItems(PaddedItems(Head(table).BlockItems))
             \o BlocksOnWire(Tail(table))

\* read is built up to the padding entries: the same pages in the same order,
\* each with the items of built and its padding.
SameUpToPadding(read, built) ==
    /\ Len(read) = Len(built)
    /\ \A i \in 1..Len(built) :
          /\ read[i].VirtualAddress = built[i].VirtualAddress
          /\ read[i].BlockItems = PaddedItems(built[i].BlockItems)

\* The table was read back from the relayout of the File as it is.
ReadBackAfterLayout ==
    /\ call.verb = "readBaseRelocationTable"
    /\ Len(out) = 2
    /\ out[1].kind = "prepareRelocationLayout" /\ out[1].err = ""
    /\ out[1].edits = edits

\* C19: a base relocation table built with AddBaseReloc and AddBaseRelocation
\* encodes, per block, to {u32 page RVA; u32 SizeOfBlock; u16 entries
\* (type<<12 | offset & 0x0fff)} with SizeOfBlock = 8 + 2 * (number of entries
\* after padding an odd count with one IMAGE_REL_BASED_ABSOLUTE entry), and
\* reading the encoded table back recovers the same blocks in the same order,
\* each with all its entries, so that a table that was non-empty stays
\* non-empty and equal up to the padding entries.
C19_BaseRelocRoundTrip ==
    /\ (f.OptionalHeader # Nil /\ f.BaseRelocationTable # Nil)
          => buildBaseRelocationData(f) = BlocksOnWire(f.BaseRelocationTable.entries)
    /\ (ReadBackAfterLayout /\ f.BaseRelocationTable # Nil)
          => /\ err = ""
             /\ out[2].table # Nil
             /\ SameUpToPadding(out[2].table.entries, f.BaseRelocationTable.entries)

----------------------------------------------------------------------------
(* The COFF relocations of the sections after the relayout.                *)

COFFFieldsLaidOut(file, s) ==
    /\ s.NumberOfRelocations = Len(s.Relocs)
    /\ IF s.Relocs = <<>> THEN s.PointerToRelocations = 0
       ELSE /\ s.PointerToRelocations % 4 = 0
            /\ \A j \in 1..Len(file.Sections) :
                  s.PointerToRelocations >= file.Sections[j].Offset + file.Sections[j].Size

COFFBlocksDisjoint(s, u) ==
    (s.Relocs # <<>> /\ u.Relocs # <<>>)
        => \/ s.PointerToRelocations + 10 * s.NumberOfRelocations <= u.PointerToRelocations
           \/ u.PointerToRelocations + 10 * u.NumberOfRelocations <= s.PointerToRelocations

COFFBlockInBuffer(s, buf, start) ==
    s.Relocs # <<>>
        => /\ s.PointerToRelocations >= start
           /\ SubSeq(buf, s.PointerToRelocations - start + 1,
                     s.PointerToRelocations - start + 10 * s.NumberOfRelocations)
                  = WriteRelocs(s.Relocs)

SymbolTableAfterRelocs(file, buf, start) ==
    file.FileHeader.PointerToSymbolTable
        = IF file.COFFSymbols = <<>> THEN 0 ELSE alignUp64(start + Len(buf), 4)

TooManyFails ==
    (/\ call.verb = "prepareRelocationLayout" /\ prev.OptionalHeader # Nil
     /\ \E i \in 1..Len(prev.Sections) : Len(prev.Sections[i].Relocs) > 65535)
        => err # ""

\* C20: after the relayout, for every section NumberOfRelocations is the
\* length of its relocation list and PointerToRelocations is 0 when the list
\* is empty; otherwise PointerToRelocations is a multiple of 4 at or after the
\* end of every section's raw data, the 10-byte-per-entry blocks of different
\* sections are disjoint, and the returned buffer holds each section's
\* relocations at PointerToRelocations minus the returned start offset;
\* PointerToSymbolTable is the end of the COFF relocation data rounded up to 4
\* when COFF symbols are present and 0 otherwise; the relayout fails when a
\* section has more than 65,535 relocations.
C20_COFFRelocationLayout ==
    /\ PELaidOut
          => /\ \A i \in 1..Len(f.Sections) :
                   /\ COFFFieldsLaidOut(f, f.Sections[i])
                   /\ COFFBlockInBuffer(f.Sections[i], out[Len(out)].bytes, out[Len(out)].start)
                   /\ \A j \in 1..Len(f.Sections) :
                         i # j => COFFBlocksDisjoint(f.Sections[i], f.Sections[j])
             /\ SymbolTableAfterRelocs(f, out[Len(out)].bytes, out[Len(out)].start)
    /\ TooManyFails

----------------------------------------------------------------------------
(* Properties of the relayout of allocated ELF relocation sections.        *)

\* An add or replace verb succeeded on an existing allocated relocation
\* section and changed its file size.
AllocRelaid ==
    /\ call.verb \in AddVerbs /\ err = ""
    /\ Written(prev, prev, call) # -1
    /\ Written(f, prev, call) = Written(prev, prev, call)
    /\ IsAlloc(Sec(f, Written(f, prev, call)))
    /\ Sec(f, Written(f, prev, call)).FileSize
         # Sec(prev, Written(prev, prev, call)).FileSize

\* The PT_LOAD segments whose address range contains the start of section s.
Holders(file, s) ==
    { i \in LoadIndices(file) :
        s.Addr >= file.Progs[i].Vaddr /\ s.Addr < file.Progs[i].Vaddr + file.Progs[i].Memsz }

\* Section s lies in segment p, in the file and in memory, at the same distance
\* from the start of the segment in both.
InsideLoad(s, p) ==
    /\ s.Offset >= p.Off /\ s.Offset + s.FileSize <= p.Off + p.Filesz
    /\ s.Addr >= p.Vaddr /\ s.Addr + s.Size <= p.Vaddr + p.Memsz
    /\ s.Addr - p.Vaddr = s.Offset - p.Off

\* The file offsets of the PT_LOAD segments that start after segment pi.
LaterLoads(file, pi) ==
    { file.Progs[i].Off : i \in { j \in LoadIndices(file) :
                                    file.Progs[j].Off > file.Progs[pi].Off } }

\* The end of all file data while section w still sits at its old offset
\* with its new size: the other sections are where the edit left them.
FileDataEnd(after, before, w) ==
    Max({ Sec(after, i).Offset + Sec(after, i).FileSize :
            i \in { j \in SecIndices(after) : j # w /\ Occupies(Sec(after, j)) } }
        \cup { Sec(before, w).Offset + Sec(after, w).FileSize })

\* Segment pi grew by the same amount in the file and in memory and now ends
\* with section s.
GrewToCover(after, before, pi, s) ==
    /\ after.Progs[pi].Filesz - before.Progs[pi].Filesz
         = after.Progs[pi].Memsz - before.Progs[pi].Memsz
    /\ after.Progs[pi].Off + after.Progs[pi].Filesz = s.Offset + s.FileSize
    /\ InsideLoad(s, after.Progs[pi])

RemoveVerbs == {"RemoveRelocations", "RemoveRelocationsFromRelocSection"}

\* The section header table starts at a multiple of the class alignment, at or
\* behind the end of every section that occupies file bytes.
SHTAfterData(file) ==
    /\ file.SHTOffset % shtAlign(file) = 0
    /\ \A i \in SecIndices(file) :
          Occupies(Sec(file, i))
              => Sec(file, i).Offset + Sec(file, i).FileSize <= file.SHTOffset

\* C22: after every successful add or replace verb the section header table
\* offset is a multiple of 4 (ELFCLASS32) or 8 (ELFCLASS64) and is not below
\* Offset + FileSize of any section that occupies file bytes, the sections the
\* relayout moved and an allocated relocation section moved into a PT_LOAD
\* included; a later successful remove verb keeps this true.
C22_SHTBehindSections ==
    /\ (call.verb \in AddVerbs /\ err = "") => SHTAfterData(f)
    /\ (call.verb \in RemoveVerbs /\ err = "" /\ SHTAfterData(prev)) => SHTAfterData(f)

\* An allocated relocation section was moved to an end beyond the place the
\* section header table had before the call.
C22_Witness ==
    /\ AllocRelaid
    /\ Sec(f, Written(f, prev, call)).Offset + Sec(f, Written(f, prev, call)).FileSize
         > prev.SHTOffset
    /\ f.SHTOffset > prev.SHTOffset

\* A remove verb succeeded on a file an add verb had laid out before.
C22_RemoveReached ==
    /\ call.verb \in RemoveVerbs /\ err = "" /\ edits = 2
    /\ SHTAfterData(prev) /\ f # prev

\* Allocated sections i and j of file that take up addresses do not share one.
AddrApart(file, i, j) ==
    \/ Sec(file, i).Addr + Sec(file, i).Size <= Sec(file, j).Addr
    \/ Sec(file, j).Addr + Sec(file, j).Size <= Sec(file, i).Addr

\* No allocated section other than w shares an address with section w.
AddrDisjoint(file, w) ==
    \A i \in SecIndices(file) :
        (i # w /\ IsAlloc(Sec(file, i)) /\ Sec(file, i).Size > 0) => AddrApart(file, i, w)

\* The address ranges of the PT_LOAD segments are pairwise disjoint.
LoadsDisjoint(file) ==
    \A i, j \in LoadIndices(file) :
        i # j => \/ file.Progs[i].Vaddr + file.Progs[i].Memsz <= file.Progs[j].Vaddr
                 \/ file.Progs[j].Vaddr + file.Progs[j].Memsz <= file.Progs[i].Vaddr

\* C29: after the relayout of an allocated relocation section its address
\* range does not intersect the address range of any other allocated section,
\* an SHT_NOBITS section in the Memsz - Filesz tail of the extended PT_LOAD
\* included, and the address ranges of the PT_LOAD segments stay disjoint,
\* whenever this was so before the edit.
C29_AddressRangesDisjoint ==
    (/\ AllocRelaid
     /\ AddrDisjoint(prev, Written(prev, prev, call))
     /\ LoadsDisjoint(prev))
        => /\ AddrDisjoint(f, Written(f, prev, call))
           /\ LoadsDisjoint(f)

\* The same for the PT_LOAD segments alone.
C29_LoadsStayDisjoint ==
    (AllocRelaid /\ LoadsDisjoint(prev)) => LoadsDisjoint(f)

----------------------------------------------------------------------------
(* Properties of the section list.                                         *)

\* Every entry of the section list `before` is at the same index in `after`.
SameIndices(after, before) ==
    /\ Len(after) >= Len(before)
    /\ \A i \in 1..Len(before) : after[i].Name = before[i].Name

\* C28: section indices are stable: no edit verb and no serialization call
\* (Mach-O Write included) removes or reorders entries of the section list; a
\* new section is only ever appended at the end.
C28_SectionIndicesStable == SameIndices(f.Sections, prev.Sections)

\* The same for the ELF edit verbs, which append the sections they create.
C28_ELFVerbsKeepIndices ==
    /\ SameIndices(f.Sections, prev.Sections)
    /\ Len(f.Sections) <= Len(prev.Sections) + 1

----------------------------------------------------------------------------
(* Properties of the placement and termination of the Mach-O dyld streams. *)

\* The LC_DYLD_INFO load command of file.
DyldInfoHeader(file) ==
    file.Loads[Min({ i \in 1..Len(file.Loads) :
                       /\ file.Loads[i].kind = "LoadBytes"
                       /\ file.Loads[i].cmd = "LoadCmdDylinkInfo" })].hdr

\* The four regenerated streams of d lie one behind the other from start on,
\* and every recorded length is the length of its stream.
PlacedFrom(d, start) ==
    /\ d.RebaseOffset = start /\ d.RebaseLen = Len(d.RebaseDat)
    /\ d.BindingInfoOffset = d.RebaseOffset + d.RebaseLen
    /\ d.BindingInfoLen = Len(d.BindingInfoDat)
    /\ d.WeakBindingOffset = d.BindingInfoOffset + d.BindingInfoLen
    /\ d.WeakBindingLen = Len(d.WeakBindingDat)
    /\ d.LazyBindingOffset = d.WeakBindingOffset + d.WeakBindingLen
    /\ d.LazyBindingLen = Len(d.LazyBindingDat)

\* The load command carries the five offset/size pairs of d.
HeaderSays(hdr, d) ==
    /\ hdr.Rebaseoff = d.RebaseOffset /\ hdr.Rebasesize = d.RebaseLen
    /\ hdr.Bindinginfooff = d.BindingInfoOffset /\ hdr.Bindinginfosize = d.BindingInfoLen
    /\ hdr.Weakbindingoff = d.WeakBindingOffset /\ hdr.Weakbindingsize = d.WeakBindingLen
    /\ hdr.Lazybindingoff = d.LazyBindingOffset /\ hdr.Lazybindingsize = d.LazyBindingLen
    /\ hdr.Exportinfooff = d.ExportInfoOffset /\ hdr.Exportinfosize = d.ExportInfoLen

\* The file ranges [offset, offset + length) of the link-edit data the
\* regenerated streams must keep clear of.
LinkEditRegions(file) ==
    (IF file.FuncStarts # Nil
     THEN {[off |-> file.FuncStarts.Offset, len |-> file.FuncStarts.Len]} ELSE {})
    \cup (IF file.DataInCode # Nil
          THEN {[off |-> file.DataInCode.Offset, len |-> file.DataInCode.Len]} ELSE {})
    \cup (IF file.SigBlock # Nil
          THEN {[off |-> file.SigBlock.Offset, len |-> file.SigBlock.Len]} ELSE {})
    \cup (IF file.Symtab # Nil
          THEN {[off |-> file.Symtab.Symoff, len |-> Len(file.Symtab.RawSymtab)],
                [off |-> file.Symtab.Stroff, len |-> Len(file.Symtab.RawStringtab)]}
          ELSE {})
    \cup (IF file.Dysymtab # Nil
          THEN {[off |-> file.Dysymtab.Indirectsymoff,
                 len |-> Len(file.Dysymtab.RawDysymtab)]}
          ELSE {})
    \cup {[off |-> file.DylinkInfo.ExportInfoOffset, len |-> file.DylinkInfo.ExportInfoLen]}

\* The range [start, end) shares no byte with a region of positive length.
ClearOf(start, end, regions) ==
    \A r \in regions : r.len > 0 => (end <= r.off \/ r.off + r.len <= start)

\* The greatest file end of a section of file.
LastSectionEnd(file) ==
    Max({0} \cup { s.Offset + s.Size : s \in { file.Sections[i] : i \in 1..Len(file.Sections) } })

\* The end of the four streams of d.
StreamsEnd(d) == d.LazyBindingOffset + d.LazyBindingLen

C23_NoRoomReached ==
    /\ call.verb = "prepareRelocationData" /\ err = "not enough room for dyld info"
    /\ edits > 0
    /\ f.FuncStarts # Nil

\* The two-byte prologue of a bind stream: SET_TYPE_IMM | POINTER and
\* SET_DYLIB_ORDINAL_IMM | 0.
BindPrologue == <<bindOpcodeSetTypeImm + bindTypePointer, bindOpcodeSetDylibOrdinalImm>>

\* A bind stream is terminated as its content demands: with no bind of its
\* kind it is the prologue alone, otherwise it ends with DONE.
Terminated(stream, file, kind) ==
    IF RelocsWhere(file, kind, 1, 1) = <<>>
    THEN stream = BindPrologue
    ELSE Len(stream) > 2 /\ stream[Len(stream)] = bindOpcodeDone

\* C24: a regenerated rebase stream always ends with DONE; each of the bind,
\* weak-bind and lazy-bind streams ends with DONE only if it holds more than
\* its two-byte prologue, that is, only if at least one bind was emitted into
\* it; a bind stream that received no bind is the prologue alone.
C24_StreamTermination ==
    Regenerated
        => /\ f.DylinkInfo.RebaseDat[Len(f.DylinkInfo.RebaseDat)] = rebaseOpcodeDone
           /\ Terminated(f.DylinkInfo.BindingInfoDat, f, "BindNormal")
           /\ Terminated(f.DylinkInfo.WeakBindingDat, f, "BindWeak")
           /\ Terminated(f.DylinkInfo.LazyBindingDat, f, "BindLazy")

\* The part of C24 about streams that received a bind, and the rebase stream.
C24_NonEmptyStreamsEndWithDone ==
    Regenerated
        => /\ f.DylinkInfo.RebaseDat[Len(f.DylinkInfo.RebaseDat)] = rebaseOpcodeDone
           /\ \A k \in {"BindNormal", "BindWeak", "BindLazy"} :
                 RelocsWhere(f, k, 1, 1) # <<>>
                    => LET s == IF k = "BindNormal" THEN f.DylinkInfo.BindingInfoDat
                                ELSE IF k = "BindWeak" THEN f.DylinkInfo.WeakBindingDat
                                ELSE f.DylinkInfo.LazyBindingDat
                       IN Len(s) > 2 /\ s[Len(s)] = bindOpcodeDone

----------------------------------------------------------------------------
(* Properties of the Mach-O AddRelocationForSymbol.                        *)

\* The symbol indices of file.
SymIndices(file) == 0..(Len(file.Symtab.Syms) - 1)

\* Apart from the relocation list of the section named `name`, and the form of
\* the two symbol maps, `after` is `before`.
OnlyRelocsOf(after, before, name) ==
    /\ [after EXCEPT !.Sections = before.Sections,
                     !.dylibOrdinalBySymbol = before.dylibOrdinalBySymbol,
                     !.bindKindBySymbol = before.bindKindBySymbol] = before
    /\ Len(after.Sections) = Len(before.Sections)
    /\ \A i \in 1..Len(before.Sections) :
          IF before.Sections[i].Name = name
          THEN [after.Sections[i] EXCEPT !.Relocs = before.Sections[i].Relocs,
                                         !.Nreloc = before.Sections[i].Nreloc]
                  = before.Sections[i]
          ELSE after.Sections[i] = before.Sections[i]

\* C30: AddRelocationForSymbol changes only the relocation list of the named
\* section: the dylib ordinal and the bind kind recorded for every symbol are
\* the same after the call as before it, so binds generated for relocations
\* added earlier with a nonzero ordinal keep that ordinal.
C30_AddForSymbolKeepsOrdinal ==
    (call.verb = "AddRelocationForSymbol" /\ err = "")
        => /\ OnlyRelocsOf(f, prev, call.section)
           /\ \A i \in SymIndices(f) :
                 /\ RecordedOrdinal(f, i) = RecordedOrdinal(prev, i)
                 /\ RecordedKind(f, i) = RecordedKind(prev, i)

\* The part of C30 that does not involve the ordinal of the named symbol.
C30_AddForSymbolKeepsTheRest ==
    (call.verb = "AddRelocationForSymbol" /\ err = "")
        => /\ OnlyRelocsOf(f, prev, call.section)
           /\ \A i \in SymIndices(f) :
                 /\ i # SymIndex(f, call.symbol)
                       => RecordedOrdinal(f, i) = RecordedOrdinal(prev, i)
                 /\ RecordedKind(f, i) = RecordedKind(prev, i)

----------------------------------------------------------------------------
(* Properties of the PE image and header sizes and of the file regions.    *)

\* The end of section s in memory, rounded up to the section alignment.
VirtualEnd(s, sectionAlign) == s.VirtualAddress + align32(s.VirtualSize, sectionAlign)

\* SizeOfImage covers every section of the section table.
ImageCoversSections(file) ==
    LET oh == file.OptionalHeader
    IN /\ oh.SizeOfImage
            = align32(Max({ VirtualEnd(file.Sections[i], oh.SectionAlignment) :
                              i \in 1..Len(file.Sections) }), oh.SectionAlignment)
       /\ \A i \in 1..Len(file.Sections) :
             file.Sections[i].VirtualAddress + file.Sections[i].VirtualSize
                <= oh.SizeOfImage

\* SizeOfHeaders is the size of the DOS stub, the signature, the file header,
\* the optional header and one 40-byte header per section, rounded up to the
\* file alignment.
HeadersSized(file) ==
    file.OptionalHeader.SizeOfHeaders
        = align32(file.DosHeader.AddressOfNewExeHeader + 4 + 20
                    + file.FileHeader.SizeOfOptionalHeader + 40 * Len(file.Sections),
                  file.OptionalHeader.FileAlignment)

\* C25: after the relayout SizeOfImage is the greatest VirtualAddress +
\* align(VirtualSize, SectionAlignment) over every section of the section
\* table, rounded up to SectionAlignment, so that no section ends beyond it (an
\* existing .reloc section whose table RemoveBaseRelocations emptied included),
\* and SizeOfHeaders is the header size rounded up to FileAlignment, counting
\* one 40-byte section header per section, a .reloc section the relayout
\* created included.
C25_ImageAndHeaderSizes ==
    PELaidOut => ImageCoversSections(f) /\ HeadersSized(f)

\* The part of C25 that holds: the header size, and the image size whenever
\* the image has no .reloc section or the relayout wrote one.
C25_SizesWithRelocWritten ==
    PELaidOut
        => /\ HeadersSized(f)
           /\ (\/ \A i \in 1..Len(f.Sections) : f.Sections[i].Name # ".reloc"
               \/ BaseRelocDirectory(f).Size > 0)
                 => ImageCoversSections(f)

\* The file ranges [off, off + len) the relayout leaves occupied: the
\* headers, the raw data of every section that has some, and the COFF
\* relocation data of length n placed at start.
FileRegions(file, start, n) ==
    {[kind |-> "headers", off |-> 0, len |-> file.OptionalHeader.SizeOfHeaders]}
    \cup { [kind |-> file.Sections[i].Name, off |-> file.Sections[i].Offset,
            len |-> file.Sections[i].Size] :
             i \in { j \in 1..Len(file.Sections) : file.Sections[j].Size > 0 } }
    \cup (IF n > 0 THEN {[kind |-> "COFF relocations", off |-> start, len |-> n]} ELSE {})

RegionsDisjoint(regions) ==
    \A r, q \in regions :
        r # q => (r.off + r.len <= q.off \/ q.off + q.len <= r.off)

\* The sections of file other than .reloc.
OtherSections(file) ==
    { file.Sections[i] : i \in { j \in 1..Len(file.Sections) :
                                   file.Sections[j].Name # ".reloc" } }

\* The .reloc section r of file sits behind all other sections, on disk and
\* in memory, and is sized after the encoded table of n bytes.
RelocPlaced(file, r, n) ==
    LET oh == file.OptionalHeader
    IN /\ r.Offset = align32(Max({0} \cup { s.Offset + s.Size : s \in OtherSections(file) }),
                             oh.FileAlignment)
       /\ r.VirtualAddress
            = align32(Max({0} \cup { s.VirtualAddress
                                        + align32(IF s.VirtualSize = 0 THEN s.Size
                                                  ELSE s.VirtualSize, oh.SectionAlignment) :
                                      s \in OtherSections(file) }),
                      oh.SectionAlignment)
       /\ r.VirtualSize = n
       /\ r.Size = align32(n, oh.FileAlignment)

\* C26: after the relayout the file regions are pairwise disjoint: the
\* headers [0, SizeOfHeaders), the raw range of every section with raw data,
\* and the COFF relocation data.  A written .reloc section sits at the greatest
\* raw end of the other sections rounded up to FileAlignment and at their
\* greatest virtual end rounded up to SectionAlignment, with VirtualSize the
\* encoded length and SizeOfRawData the length rounded up to FileAlignment.
\* The section header of a new .reloc never makes the headers reach into the
\* raw data of the first section, and the COFF relocation data never lands on
\* the raw data of an existing .reloc.
C26_FileRegionsDisjoint ==
    PELaidOut
        => /\ RegionsDisjoint(FileRegions(f, out[Len(out)].start, Len(out[Len(out)].bytes)))
           /\ BaseRelocDirectory(f).Size > 0
                 => \E i \in 1..Len(f.Sections) :
                       /\ f.Sections[i].Name = ".reloc"
                       /\ RelocPlaced(f, f.Sections[i], BaseRelocDirectory(f).Size)

\* The placement of a written .reloc section alone.
C26_RelocPlacement ==
    (PELaidOut /\ BaseRelocDirectory(f).Size > 0)
        => \E i \in 1..Len(f.Sections) :
              /\ f.Sections[i].Name = ".reloc"
              /\ RelocPlaced(f, f.Sections[i], BaseRelocDirectory(f).Size)

\* The headers grew into the raw data of the first section.
C26_HeadersReachFirstSection ==
    /\ PELaidOut
    /\ Len(f.Sections) = Len(prev.Sections) + 1
    /\ f.OptionalHeader.SizeOfHeaders > f.Sections[1].Offset

\* The COFF relocation data lies on the raw data of the .reloc section.
C26_COFFRelocsOnReloc ==
    /\ PELaidOut
    /\ Len(out[Len(out)].bytes) > 0
    /\ \E i \in 1..Len(f.Sections) :
          /\ f.Sections[i].Name = ".reloc"
          /\ f.Sections[i].Offset = out[Len(out)].start

----------------------------------------------------------------------------
(* Properties of the serializers' handling of overlapping regions.         *)

\* C27: when the declared file offset of a payload region is lower than the
\* bytes already written, the serialization returns an error and produces
\* no output: it never returns success with the payload left out.  Here for
\* the section walk of the ELF Bytes().
C27_OverlapIsAnError ==
    \A k \in 1..Len(out) :
        out[k].skipped # {} => (out[k].err # "" /\ out[k].bytes = <<>>)

\* The same for the section-data walk of the PE Bytes(): no padding is sized
\* by an unsigned wrap-around, a section whose PointerToRawData is lower than
\* the bytes written makes the call fail without output.
C27_PEOverlapIsAnError ==
    \A k \in 1..Len(out) :
        (out[k].kind = "Bytes"
           /\ \E j \in 1..Len(out[k].bytes) : out[k].bytes[j].wrap)
            => (out[k].err # "" /\ out[k].bytes = <<>>)

\* Bytes() returned success on a parsed, unedited image with a padding sized
\* by wrap-around before the section whose PointerToRawData is 0.
C27_PEWrapOnZeroPointer ==
    /\ edits = 0 /\ Len(out) = 1 /\ out[1].kind = "Bytes" /\ out[1].err = ""
    /\ \E j \in 2..Len(out[1].bytes) :
          /\ out[1].bytes[j - 1].wrap
          /\ out[1].bytes[j].kind = ".bss"

====
